---- MODULE Spec2Model ----
(***************************************************************************)
(* Vibe-Song-Sync acquisition pipeline: the catalog store                  *)
(* (src/src/core/database.py), the page scraper (src/src/core/scraper.py), *)
(* the archive downloader (src/src/core/downloader.py) and the worker      *)
(* threads that drive them (src/src/core/threads.py).                      *)
(*                                                                         *)
(* A Python dict is a TLA+ record whose DOMAIN is the set of keys present; *)
(* dict.get(k, d) is Get(dict, k, d).  None is the string NoneVal.  The    *)
(* file_path column holds json.dumps(list): it is modelled by the list     *)
(* itself ('[]' is << >>).                                                 *)
(***************************************************************************)
EXTENDS Integers, Sequences, FiniteSets, TLC

\* ------------------------------------------------------------------ bounds
\* Number of distinct track identifiers the environment can produce.
MaxSongs == 3
\* Largest number of listing pages the vendor serves, and tracks per full page.
MaxPages == 3
PerPage == 2
\* Number of tracks handed to one DownloadThread.
MaxBatch == 2
\* Number of calls of the operation log's two functions that are followed.
MaxLogCalls == 4
\* Number of cleanup_database calls that are followed.
MaxCleanups == 2
\* Number of rows with a vendor identifier in a table whose integrity is checked.
MaxRows == 2
\* Number of times polling is toggled before an operation is started.
MaxToggles == 1
\* Number of consecutive Fetch New operations.
MaxRuns == 3
\* Resolution of the clock: a second is JitterSteps ticks, and random.uniform
\* draws one of the JitterSteps + 1 tick counts of [0, 1].
JitterSteps == 2

\* ------------------------------------------------------- program constants
\* scrape_songs_on_page(page_number, max_retries=3)
PageMaxRetries == 3
\* ThreadPoolExecutor(max_workers=10) in scrape_all_pages
ScrapeWorkers == 10
\* download_song: max_retries = 5
DownloadMaxRetries == 5
\* get_direct_download_url(download_url, max_retries=3)
ResolveMaxRetries == 3
\* SongDownloader(..., max_concurrent_downloads=5)
DownloadWorkers == 5
\* download_and_update: retries = 3
OrchestratorRetries == 3
\* update_log_operation: ORDER BY start_time DESC LIMIT 100
LogCap == 100
\* download_song: min(..., 30), the cap of the backoff in seconds
BackoffCap == 30

\* ------------------------------------------------------------- identifiers
\* Vendor identifiers, oldest purchase first, and the purchase date of each
\* (two purchases can share a day).
AllSongIds == <<"KV100", "KV101", "KV102", "KV103", "KV104", "KV105", "KV106",
                "KV107", "KV108", "KV109", "KV110", "KV111", "KV112", "KV113",
                "KV114", "KV115", "KV116", "KV117", "KV118", "KV119">>
AllDates == <<"2024-01-01", "2024-01-01", "2024-02-01", "2024-02-02", "2024-02-02",
              "2024-03-01", "2024-03-02", "2024-03-03", "2024-03-03", "2024-04-01",
              "2024-04-02", "2024-04-03", "2024-04-04", "2024-04-05", "2024-04-06",
              "2024-05-01", "2024-05-02", "2024-05-03", "2024-05-04", "2024-05-05">>
\* The data-songid attribute of each purchase's row: the identifier without
\* its "KV" prefix.
AllSongNumbers == <<"100", "101", "102", "103", "104", "105", "106",
                    "107", "108", "109", "110", "111", "112", "113",
                    "114", "115", "116", "117", "118", "119">>
SongIds == {AllSongIds[i] : i \in 1..MaxSongs}
NoneVal == "<None>"

\* Python truthiness of a string-or-None value.
Truthy(v) == v # "" /\ v # NoneVal

\* dict.get(key, default)
Get(d, k, default) == IF k \in DOMAIN d THEN d[k] ELSE default

VARIABLES
    purchased_songs,  \* table purchased_songs: a set of rows
    upserted,         \* history: identifiers saved since the table was last cleared
    lastWrite,        \* history: the last dict passed to save_song, per identifier
    saveCall,         \* history: the last save_song call, its dict and what it raised
    cleanupLog,       \* history: cleanup_database calls, the table before the last, its result
    report,           \* the report of the last validate_database_integrity call
    lastSongCall,     \* history: the last get_last_song_id call, its table and result
    remoteCount,      \* environment: number of tracks in the vendor's listing
    rowDefect,        \* environment: what the listing row of each purchase lacks
    last_song_id,     \* scrape_all_pages argument (NoneVal when not given)
    validate,         \* scrape_all_pages argument
    scrapePc,         \* position of scrape_all_pages: idle, probe, loop, shutdown, returned
    total_pages,      \* scrape_all_pages local
    future,           \* per page: pending, running, done (the executor's futures)
    pageAttempt,      \* per page: scrape_songs_on_page's loop variable attempt
    pageResult,       \* per page: the songs scrape_songs_on_page returned
    pageOutcome,      \* history, per page: none, ok (a fetch succeeded), failed (all failed)
    pageHasNext,      \* per page: the has_next_page scrape_songs_on_page returned
    pageRequests,     \* history, per page: session.get calls scrape_songs_on_page made
    pageSleeps,       \* history, per page: the time.sleep durations, in order
    yielded,          \* pages whose future as_completed has yielded
    all_songs,        \* scrape_all_pages local
    found_last_song,  \* scrape_all_pages local
    completed_pages,  \* scrape_all_pages local
    failed_pages,     \* scrape_all_pages local
    serves,           \* environment, per track: the vendor answers the track's requests
    unzip_songs,      \* download option
    delete_zip,       \* download option
    songs,            \* per track: the in-memory song dict of DownloadThread.songs
    zipFile,          \* per track: the file under the final name: absent, valid, badcrc, notzip
    tmpFile,          \* per track: the .tmp sibling: absent, partial, valid, badcrc, notzip
    bakFile,          \* per track: the .zip.bak sibling exists
    memberFiles,      \* per track: renamed member files of the archive exist
    pc,               \* per track: position in download_song / download_and_update
    attempt,          \* per track: download_song's loop variable attempt
    retry_count,      \* per track: get_direct_download_url's retry_count
    dlFinished,       \* per track: download_finished was emitted
    dlFailed,         \* per track: download_failed was emitted
    attemptsMade,     \* history, per track: attempts begun by the current call
    zipAtCall,        \* history, per track: zipFile when download_song was called
    netUsed,          \* history, per track: the current call issued a request
    zipTouched,       \* history, per track: the current call wrote or removed the final file
    keepLog,          \* whether failureLog is kept
    failureLog,       \* history, per track: the failures of the current call
    keepTraffic,      \* whether traffic is kept
    traffic,          \* history, per track: requests made and delays slept by the current call
    orchPc,           \* DownloadThread.run: idle, dispatch, wait, stopping, finished, stopped
    idx,              \* DownloadThread.run: tracks the dispatch loop has gone through
    stop_downloading_flag,
    task,             \* per track: none, queued, running, done (the executor's futures)
    dlAttempt,        \* per track: download_and_update's loop variable attempt
    downloaded_song_count,
    countRead,        \* per track: the value read by downloaded_song_count += 1
    song_failed,      \* per track: DownloadThread.song_failed was emitted
    inFlightAtStop,   \* history: the tracks being fetched when stop_downloading ran
    operation_logs,   \* table operation_logs: a set of rows
    logClock,         \* environment: the last value datetime.now() returned
    logIds,           \* environment: identifiers start_log_operation has handed out
    logWrites,        \* history, per identifier: the statuses update_log_operation wrote
    logCalls,         \* history: calls of start_log_operation and update_log_operation
    startsSincePurge, \* history: start_log_operation calls since the last purge
    operation,        \* MainWindow: the operation under way (none when idle)
    opPc,             \* MainWindow: position in the operation's handlers
    log_id,           \* the log_id of the operation under way (0: none)
    stop_requested,   \* MainWindow.stop_requested
    polling_enabled,  \* MainWindow.polling_enabled
    loginRequests,    \* history: session.post calls made by SongScraper.login
    loginOutcome,     \* history: none, ok, failed (how scraper.login() ended)
    stop_scraping_flag,       \* ScrapeThread.stop_scraping_flag
    threadPc,                 \* ScrapeThread.run: none, scrape, save, finished, stopped, error
    index,                    \* ScrapeThread.run: songs the save loop has gone through
    added_song_count,         \* ScrapeThread.run local
    newly_added_song_count    \* DatabaseManager._newly_added_song_count

storeVars == <<purchased_songs, upserted, lastWrite, saveCall, cleanupLog, report,
               lastSongCall>>
scrapeVars == <<remoteCount, rowDefect, last_song_id, validate, scrapePc, total_pages, future,
                pageAttempt, pageResult, pageOutcome, pageHasNext, pageRequests,
                pageSleeps, yielded, all_songs, found_last_song, completed_pages,
                failed_pages>>
fetchVars == <<serves, unzip_songs, delete_zip, songs, zipFile, tmpFile, bakFile,
               memberFiles, pc, attempt, retry_count, dlFinished, dlFailed,
               attemptsMade, zipAtCall, netUsed, zipTouched, keepLog, failureLog,
               keepTraffic, traffic>>
orchVars == <<orchPc, idx, stop_downloading_flag, task, dlAttempt,
              downloaded_song_count, countRead, song_failed, inFlightAtStop>>
logVars == <<operation_logs, logClock, logIds, logWrites, logCalls, startsSincePurge>>
opVars == <<operation, opPc, log_id, stop_requested, polling_enabled, loginRequests,
            loginOutcome,
            stop_scraping_flag, threadPc, index, added_song_count,
            newly_added_song_count>>
vars == <<storeVars, logVars, opVars, scrapeVars, fetchVars, orchVars>>

\* The tracks of a download batch, in list order.
BatchSeq == [i \in 1..MaxBatch |-> AllSongIds[i]]
Tracks == {BatchSeq[i] : i \in 1..MaxBatch}

\* The table as initialize_database creates it.
\* save_song has not been called.
NoCall == [song |-> [title |-> "none"], raised |-> "none"]

\* cleanup_database and validate_database_integrity have not been called.
NoCleanup == [calls |-> 0, before |-> {}, removed_invalid |-> 0, fixed_paths |-> 0]
NoLastSong == [called |-> FALSE, table |-> {}, result |-> NoneVal]
NoReport == [total_songs |-> -1, invalid_ids |-> -1, duplicates |-> -1,
             missing_file_paths |-> -1, cleanups |-> -1]

StoreEmpty ==
    /\ purchased_songs = {}
    /\ upserted = {}
    /\ lastWrite = [id \in {} |-> [song_id |-> id]]
    /\ saveCall = NoCall
    /\ cleanupLog = NoCleanup
    /\ report = NoReport
    /\ lastSongCall = NoLastSong

\* The log table as initialize_database creates it.
LogIdle ==
    /\ operation_logs = {}
    /\ logClock = 0
    /\ logIds = 0
    /\ logWrites = << >>
    /\ logCalls = 0
    /\ startsSincePurge = 0

\* The main window after __init__: no operation under way, no thread.
OpIdle ==
    /\ operation = "none"
    /\ opPc = "idle"
    /\ log_id = 0
    /\ stop_requested = FALSE
    /\ polling_enabled = FALSE
    /\ loginRequests = 0
    /\ loginOutcome = "none"
    /\ stop_scraping_flag = FALSE
    /\ threadPc = "none"
    /\ index = 0
    /\ added_song_count = 0
    /\ newly_added_song_count = 0

\* No scrape is running.
ScrapeIdle ==
    /\ remoteCount = 0
    /\ rowDefect = << >>
    /\ last_song_id = NoneVal
    /\ validate = FALSE
    /\ scrapePc = "idle"
    /\ total_pages = 0
    /\ future = << >>
    /\ pageAttempt = << >>
    /\ pageResult = << >>
    /\ pageOutcome = << >>
    /\ pageHasNext = << >>
    /\ pageRequests = << >>
    /\ pageSleeps = << >>
    /\ yielded = {}
    /\ all_songs = << >>
    /\ found_last_song = FALSE
    /\ completed_pages = 0
    /\ failed_pages = << >>

\* A call of download_song that has made no request and slept no delay.
NoTraffic == [resolve |-> 0, stream |-> 0, sleeps |-> << >>]

\* No download is running.
FetchIdle ==
    /\ serves = [s \in Tracks |-> TRUE]
    /\ unzip_songs = FALSE
    /\ delete_zip = FALSE
    /\ songs = [s \in Tracks |-> [song_id |-> s]]
    /\ zipFile = [s \in Tracks |-> "absent"]
    /\ tmpFile = [s \in Tracks |-> "absent"]
    /\ bakFile = [s \in Tracks |-> FALSE]
    /\ memberFiles = [s \in Tracks |-> FALSE]
    /\ pc = [s \in Tracks |-> "none"]
    /\ attempt = [s \in Tracks |-> 0]
    /\ retry_count = [s \in Tracks |-> 0]
    /\ dlFinished = [s \in Tracks |-> FALSE]
    /\ dlFailed = [s \in Tracks |-> FALSE]
    /\ attemptsMade = [s \in Tracks |-> 0]
    /\ zipAtCall = [s \in Tracks |-> "absent"]
    /\ netUsed = [s \in Tracks |-> FALSE]
    /\ zipTouched = [s \in Tracks |-> FALSE]
    /\ keepLog = FALSE
    /\ failureLog = [s \in Tracks |-> << >>]
    /\ keepTraffic = FALSE
    /\ traffic = [s \in Tracks |-> NoTraffic]

OrchIdle ==
    /\ orchPc = "idle"
    /\ idx = 0
    /\ stop_downloading_flag = FALSE
    /\ task = [s \in Tracks |-> "none"]
    /\ dlAttempt = [s \in Tracks |-> 0]
    /\ downloaded_song_count = 0
    /\ countRead = [s \in Tracks |-> 0]
    /\ song_failed = [s \in Tracks |-> FALSE]
    /\ inFlightAtStop = {}

\* ------------------------------------------------------------ Catalog Store
\* file_paths as save_song / update_song compute it: the default "" becomes [].
FilePathsOf(song) == IF "file_path" \in DOMAIN song THEN song.file_path ELSE << >>

\* The tuple save_song binds to INSERT OR REPLACE.
SongRow(song) ==
    [song_id      |-> song.song_id,
     artist       |-> Get(song, "artist", "Unknown"),
     artist_url   |-> Get(song, "artist_url", ""),
     title        |-> Get(song, "title", "Unknown"),
     title_url    |-> Get(song, "title_url", ""),
     order_date   |-> Get(song, "order_date", NoneVal),
     download_url |-> Get(song, "download_url", ""),
     file_path    |-> FilePathsOf(song),
     downloaded   |-> Get(song, "downloaded", 0),
     extracted    |-> Get(song, "extracted", 0)]

\* A table without the replace: the old row of the identifier stays.
InsertKeepingOld(table, row) == table \cup {row}

\* INSERT OR REPLACE on the PRIMARY KEY song_id: the conflicting row is deleted,
\* the new row inserted.
InsertOrReplace(table, row) ==
    {r \in table : r.song_id # row.song_id} \cup {row}

\* A variant of the validation that only looks for the key.
SaveSongRejectsMissingKey(song) == ~("song_id" \in DOMAIN song)

\* save_song: ValueError (nothing written) when the identifier is missing or empty.
SaveSongRejects(song) == ~("song_id" \in DOMAIN song) \/ ~Truthy(song.song_id)

\* The write of save_song: nothing when the dict is rejected, else the INSERT
\* OR REPLACE.
save_song_store(song) ==
    IF SaveSongRejects(song)
    THEN /\ saveCall' = [song |-> song, raised |-> "ValueError"]
         /\ UNCHANGED <<purchased_songs, upserted, lastWrite, cleanupLog, report, lastSongCall>>
    ELSE /\ saveCall' = [song |-> song, raised |-> "none"]
         /\ UNCHANGED <<cleanupLog, report, lastSongCall>>
         /\ purchased_songs' = InsertOrReplace(purchased_songs, SongRow(song))
         /\ upserted' = upserted \cup {song.song_id}
         /\ lastWrite' = [id \in upserted' |->
                            IF id = song.song_id THEN song ELSE lastWrite[id]]

save_song(song) ==
    /\ save_song_store(song)
    /\ UNCHANGED <<logVars, opVars, scrapeVars, fetchVars, orchVars>>

\* get_all_songs: SELECT * FROM purchased_songs
get_all_songs == purchased_songs

\* clear_database: DELETE FROM purchased_songs
clear_database ==
    /\ purchased_songs' = {}
    /\ upserted' = {}
    /\ lastWrite' = [id \in {} |-> [song_id |-> id]]
    /\ UNCHANGED <<saveCall, cleanupLog, report, lastSongCall>>
    /\ UNCHANGED <<logVars, opVars, scrapeVars, fetchVars, orchVars>>

\* The dicts callers pass to save_song: scraped tracks (no file state), tracks
\* carrying file state, and dicts with an empty or missing identifier.
SongInputs ==
    {[song_id |-> i, artist |-> a, title |-> "Title", order_date |-> d,
      download_url |-> "/dl"] :
        i \in SongIds \cup {""}, a \in {"Artist", ""}, d \in {"2024-01-01", NoneVal}}
    \cup
    {[song_id |-> i, title |-> "Title", file_path |-> fp, downloaded |-> dl,
      extracted |-> 0] :
        i \in SongIds, fp \in {<< >>, <<"a.zip">>}, dl \in {0, 1}}
    \cup
    {[artist |-> "Artist", title |-> "Title"]}

StoreInit == StoreEmpty /\ LogIdle /\ OpIdle /\ ScrapeIdle /\ FetchIdle /\ OrchIdle

SaveSong == \E song \in SongInputs : save_song(song)
ClearDatabase == clear_database

StoreNext == SaveSong \/ ClearDatabase

SpecStore == StoreInit /\ [][StoreNext]_vars

\* ------------------------------------------------------------ Operation Log
\* start_time and end_time hold datetime.now().isoformat(); the strings of one
\* format compare as the instants do, so a time is modelled by a number.
\* The row start_log_operation inserts (end_time is left NULL).
LogRow(id, name, now, details) ==
    [id |-> id, operation |-> name, start_time |-> now, end_time |-> NoneVal,
     status |-> "running", details |-> details]

\* start_log_operation(operation_name, details) at clock reading now: the new
\* row's identifier is logIds'.
start_log_operation(name, details, now) ==
    /\ logClock' = now
    /\ logIds' = logIds + 1
    /\ operation_logs' = operation_logs \cup {LogRow(logIds', name, now, details)}
    /\ logWrites' = [id \in 1..logIds' |->
                       IF id = logIds' THEN << >> ELSE logWrites[id]]
    /\ logCalls' = logCalls + 1
    /\ startsSincePurge' = startsSincePurge + 1

\* The sets of LogCap rows that ORDER BY start_time LIMIT LogCap can select,
\* newest first (desc) or oldest first; rows of equal start_time come in any
\* order.
LimitRows(log, desc) ==
    IF Cardinality(log) <= LogCap THEN {log}
    ELSE LET Before(a, b) == IF desc THEN a > b ELSE a < b
             times == {r.start_time : r \in log}
             cut == CHOOSE c \in times :
                       /\ Cardinality({r \in log : Before(r.start_time, c)}) < LogCap
                       /\ Cardinality({r \in log : Before(r.start_time, c)
                                                      \/ r.start_time = c}) >= LogCap
             first == {r \in log : Before(r.start_time, cut)}
             ties == {r \in log : r.start_time = cut}
         IN  {first \cup k : k \in {x \in SUBSET ties :
                                       Cardinality(x) = LogCap - Cardinality(first)}}

\* No DELETE: every row stays.
AllRows(log) == {log}

\* ORDER BY start_time ASC: the oldest rows are kept.
OldestRows(log) == LimitRows(log, FALSE)

\* SELECT id FROM operation_logs ORDER BY start_time DESC LIMIT 100
NewestRows(log) == LimitRows(log, TRUE)

\* The UPDATE of update_log_operation.
LogUpdated(log, id, status, details, now) ==
    {IF r.id = id
     THEN [r EXCEPT !.end_time = now, !.status = status, !.details = details]
     ELSE r : r \in log}

\* update_log_operation(log_id, status, details) at clock reading now: the
\* UPDATE, then the DELETE of the rows the subquery did not select.
update_log_operation(id, status, details, now) ==
    /\ operation_logs' \in
          NewestRows(LogUpdated(operation_logs, id, status, details, now))
    /\ logClock' = now
    /\ logWrites' = IF \E r \in operation_logs : r.id = id
                    THEN [logWrites EXCEPT ![id] = Append(@, status)]
                    ELSE logWrites
    /\ logCalls' = logCalls + 1
    /\ startsSincePurge' = 0
    /\ UNCHANGED logIds

\* Clock readings: the time has moved on, or not since the last reading, or the
\* wall clock was set back.
ClockReadings == {c \in {logClock - 1, logClock, logClock + 1} : c >= 0}

TerminalStatuses == {"success", "failed", "cancelled", "info"}

\* The log after n toggle_polling calls (each a start and a success), the two
\* oldest started at one clock reading when tied.
PriorRows(n, tied) ==
    {[id |-> i, operation |-> "Toggle Polling",
      start_time |-> IF tied /\ i = 2 THEN 1 ELSE 2 * i - 1,
      end_time |-> 2 * i, status |-> "success", details |-> "Polling toggled"] :
        i \in 1..n}

\* Identifiers handed out whose row has not been completed.
OpenIds == {id \in 1..logIds : logWrites[id] = << >>}

LogInit ==
    /\ StoreEmpty
    /\ \E n \in {0, LogCap - 1, LogCap}, tied \in BOOLEAN :
          /\ operation_logs = PriorRows(n, tied)
          /\ logClock = 2 * n
          /\ logIds = n
          /\ logWrites = [i \in 1..n |-> <<"success">>]
    /\ logCalls = 0
    /\ startsSincePurge = 0
    /\ OpIdle
    /\ ScrapeIdle
    /\ FetchIdle
    /\ OrchIdle

StartLog ==
    /\ logCalls < MaxLogCalls
    /\ \E now \in ClockReadings : start_log_operation("Fetch New", "", now)
    /\ UNCHANGED <<storeVars, opVars, scrapeVars, fetchVars, orchVars>>

UpdateLog ==
    /\ logCalls < MaxLogCalls
    /\ \E id \in OpenIds, status \in TerminalStatuses, now \in ClockReadings :
          update_log_operation(id, status, "", now)
    /\ UNCHANGED <<storeVars, opVars, scrapeVars, fetchVars, orchVars>>

LogNext == StartLog \/ UpdateLog

SpecLog == LogInit /\ [][LogNext]_vars

\* ------------------------------------------------------------------ Scraper
\* The vendor's listing is ordered newest first (orderField=add_date,
\* orderSort=desc): position 1 is the latest purchase.
MaxRemote == MaxPages * PerPage
RemoteSongId(pos) == AllSongIds[remoteCount + 1 - pos]
RemotePages == (remoteCount + PerPage - 1) \div PerPage

\* The dict _extract_song_data builds for the row of the i-th oldest purchase.
ScrapedSong(i) ==
    [song_id      |-> AllSongIds[i],
     artist       |-> "Artist",
     artist_url   |-> "/artist",
     title        |-> "Title",
     title_url    |-> "/title",
     order_date   |-> AllDates[i],
     download_url |-> "/dl"]

RemoteSong(pos) == ScrapedSong(remoteCount + 1 - pos)

PagePositions(p) ==
    {pos \in 1..remoteCount : (p - 1) * PerPage < pos /\ pos <= p * PerPage}

\* What a listing row can lack, one thing at a time.
RowDefects ==
    {"none", "no_song_td", "no_artist_td", "no_song_anchor", "empty_title",
     "empty_artist", "no_artist_anchor", "no_date_td", "no_action_anchor",
     "action_no_href", "no_vote_button", "no_songid"}

\* The <tr class="vam"> of the i-th oldest purchase as the vendor renders it:
\* the elements _extract_song_data looks for, their texts and attributes.
HtmlRow(i, defect) ==
    [song_td       |-> defect # "no_song_td",
     artist_td     |-> defect # "no_artist_td",
     song_anchor   |-> defect # "no_song_anchor",
     song_text     |-> IF defect = "empty_title" THEN " " ELSE " Title ",
     song_href     |-> "/title",
     artist_text   |-> IF defect = "empty_artist" THEN "" ELSE "Artist",
     artist_anchor |-> defect # "no_artist_anchor",
     artist_href   |-> "/artist",
     date_td       |-> defect # "no_date_td",
     date_text     |-> AllDates[i],
     action_anchor |-> defect # "no_action_anchor",
     action_href   |-> IF defect = "action_no_href" THEN NoneVal ELSE "/dl",
     vote_button   |-> defect # "no_vote_button",
     data_songid   |-> IF defect = "no_songid" THEN NoneVal ELSE AllSongNumbers[i]]

\* str.strip() on the texts a row carries.
Strip(text) == IF text = " " THEN "" ELSE IF text = " Title " THEN "Title" ELSE text

\* _extract_song_data raises ValueError: the song td, the artist td, the song
\* anchor or the download anchor is not found, or song_id, song_name or
\* artist_name is empty.
Raises(row) ==
    \/ ~row.song_td
    \/ ~row.artist_td
    \/ ~row.song_anchor
    \/ ~row.action_anchor
    \/ ~(row.vote_button /\ Truthy(row.data_songid))
    \/ ~Truthy(Strip(row.song_text))
    \/ ~Truthy(Strip(row.artist_text))

\* The dict _extract_song_data returns for a row it does not raise on.
extract_song_data(row) ==
    [song_id      |-> "KV" \o row.data_songid,
     artist       |-> Strip(row.artist_text),
     artist_url   |-> IF row.artist_anchor THEN row.artist_href ELSE NoneVal,
     title        |-> Strip(row.song_text),
     title_url    |-> row.song_href,
     order_date   |-> IF row.date_td THEN row.date_text ELSE NoneVal,
     download_url |-> row.action_href]

\* soup.findAll("tr", {"class": "vam"}) of page p, in page order.
PageRows(p) ==
    [i \in 1..Cardinality(PagePositions(p)) |->
        LET n == remoteCount + 1 - ((p - 1) * PerPage + i)
        IN  HtmlRow(n, rowDefect[n])]

\* The songs of page p in page order, as a successful scrape_songs_on_page
\* returns them: the row loop appends the dict of every row that
\* _extract_song_data does not raise on.
PageSongs(p) ==
    LET kept == SelectSeq(PageRows(p), LAMBDA row : ~Raises(row))
    IN  [i \in 1..Len(kept) |-> extract_song_data(kept[i])]

Pages == 1..total_pages

\* get_total_pages: the probe's pagination links; 1 when the probe fails.
get_total_pages(ok) == IF ok THEN RemotePages ELSE 1

\* executor.submit for every page: a worker takes each task while one is idle.
Submitted(n) ==
    [p \in 1..n |-> IF p <= ScrapeWorkers THEN "running" ELSE "pending"]

\* scrape_all_pages up to the as_completed loop.
scrape_all_pages_start(ok) ==
    /\ scrapePc = "probe"
    /\ total_pages' = get_total_pages(ok)
    /\ future' = Submitted(total_pages')
    /\ pageAttempt' = [p \in 1..total_pages' |-> 0]
    /\ pageResult' = [p \in 1..total_pages' |-> << >>]
    /\ pageOutcome' = [p \in 1..total_pages' |-> "none"]
    /\ pageHasNext' = [p \in 1..total_pages' |-> FALSE]
    /\ pageRequests' = [p \in 1..total_pages' |-> 0]
    /\ pageSleeps' = [p \in 1..total_pages' |-> << >>]
    /\ scrapePc' = "loop"
    /\ UNCHANGED <<remoteCount, rowDefect, last_song_id, validate, yielded, all_songs,
                   found_last_song, completed_pages, failed_pages>>
    /\ UNCHANGED <<storeVars, logVars, opVars, fetchVars, orchVars>>

\* A worker that finishes its task takes the next pending one.
AfterDone(fut, p) ==
    LET done == [fut EXCEPT ![p] = "done"]
        waiting == {q \in DOMAIN fut : done[q] = "pending"}
    IN  IF waiting = {} THEN done
        ELSE LET nxt == CHOOSE q \in waiting : \A r \in waiting : q <= r
             IN  [done EXCEPT ![nxt] = "running"]

\* soup.find("a", rel=next): the vendor's page carries a link to a next page.
HasNextLink(p) == p < RemotePages

\* `if attempt == max_retries - 1`
IsLastPageAttempt(a) == a = PageMaxRetries - 1

\* A backoff that starts at two seconds.
PageBackoffLate(a) == 2 ^ (a + 1)

\* time.sleep(2**attempt)
PageBackoff(a) == 2 ^ a

\* One attempt of scrape_songs_on_page for page p: the request and the parse
\* succeed (ok) or an exception is caught.
scrape_songs_on_page(p, ok) ==
    /\ scrapePc \in {"loop", "shutdown"}
    /\ p \in Pages
    /\ future[p] = "running"
    /\ pageRequests' = [pageRequests EXCEPT ![p] = @ + 1]
    /\ IF ok
       THEN /\ pageResult' = [pageResult EXCEPT ![p] = PageSongs(p)]
            /\ pageHasNext' = [pageHasNext EXCEPT ![p] = HasNextLink(p)]
            /\ pageOutcome' = [pageOutcome EXCEPT ![p] = "ok"]
            /\ future' = AfterDone(future, p)
            /\ UNCHANGED <<pageAttempt, pageSleeps>>
       ELSE IF IsLastPageAttempt(pageAttempt[p])
            THEN /\ pageResult' = [pageResult EXCEPT ![p] = << >>]
                 /\ pageHasNext' = [pageHasNext EXCEPT ![p] = FALSE]
                 /\ pageOutcome' = [pageOutcome EXCEPT ![p] = "failed"]
                 /\ future' = AfterDone(future, p)
                 /\ UNCHANGED <<pageAttempt, pageSleeps>>
            ELSE /\ pageSleeps' = [pageSleeps EXCEPT
                                      ![p] = Append(@, PageBackoff(pageAttempt[p]))]
                 /\ pageAttempt' = [pageAttempt EXCEPT ![p] = @ + 1]
                 /\ UNCHANGED <<pageResult, pageHasNext, pageOutcome, future>>
    /\ UNCHANGED <<remoteCount, rowDefect, last_song_id, validate, scrapePc, total_pages,
                   yielded, all_songs, found_last_song, completed_pages,
                   failed_pages>>
    /\ UNCHANGED <<storeVars, logVars, opVars, fetchVars, orchVars>>

\* A stop test that leaves validate out.
StopIndexIgnoringValidate(page_songs, stop_id, val) ==
    LET hits == {i \in 1..Len(page_songs) :
                    Truthy(stop_id) /\ page_songs[i].song_id = stop_id}
    IN  IF hits = {} THEN 0 ELSE CHOOSE i \in hits : \A j \in hits : i <= j

\* Index of the first song of page_songs that stops the scrape, 0 when none does.
StopIndex(page_songs, stop_id, val) ==
    LET hits == {i \in 1..Len(page_songs) :
                    Truthy(stop_id) /\ page_songs[i].song_id = stop_id /\ ~val}
    IN  IF hits = {} THEN 0 ELSE CHOOSE i \in hits : \A j \in hits : i <= j

\* The page_songs of one page up to and including the song that stops the scrape.
SongsThroughStop(page_songs, stop_id, val) ==
    IF StopIndex(page_songs, stop_id, val) = 0 THEN page_songs
    ELSE SubSeq(page_songs, 1, StopIndex(page_songs, stop_id, val))

\* The page_songs of one page that the inner for loop appends before its break.
SongsBeforeStop(page_songs, stop_id, val) ==
    IF StopIndex(page_songs, stop_id, val) = 0 THEN page_songs
    ELSE SubSeq(page_songs, 1, StopIndex(page_songs, stop_id, val) - 1)

\* all_songs rebound to the page's songs instead of extended.
AccumulateOverwrite(acc, new_songs) == new_songs

\* all_songs.append(song) for each song kept.
Accumulate(acc, new_songs) == acc \o new_songs

\* The body of the as_completed loop for the future of page p.  future.result
\* never raises (scrape_songs_on_page catches every Exception), so the except
\* branch that appends to failed_pages is not taken.
process_page_result(p) ==
    /\ scrapePc = "loop"
    /\ p \in Pages \ yielded
    /\ future[p] = "done"
    /\ yielded' = yielded \cup {p}
    /\ completed_pages' = completed_pages + 1
    /\ all_songs' = Accumulate(all_songs,
                               SongsBeforeStop(pageResult[p], last_song_id, validate))
    /\ found_last_song' =
          (found_last_song \/ StopIndex(pageResult[p], last_song_id, validate) # 0)
    /\ scrapePc' = IF found_last_song' THEN "shutdown" ELSE "loop"
    /\ UNCHANGED <<remoteCount, rowDefect, last_song_id, validate, total_pages, future,
                   pageAttempt, pageResult, pageOutcome, pageHasNext, pageRequests,
                   pageSleeps, failed_pages>>
    /\ UNCHANGED <<storeVars, logVars, opVars, fetchVars, orchVars>>

\* Leaving the with block (executor.shutdown waits for every submitted task)
\* and returning all_songs.
scrape_all_pages_return ==
    /\ \/ scrapePc = "loop" /\ yielded = Pages
       \/ scrapePc = "shutdown"
    /\ \A p \in Pages : future[p] = "done"
    /\ scrapePc' = "returned"
    /\ UNCHANGED <<remoteCount, rowDefect, last_song_id, validate, total_pages, future,
                   pageAttempt, pageResult, pageOutcome, pageHasNext, pageRequests,
                   pageSleeps, yielded, all_songs, found_last_song, completed_pages,
                   failed_pages>>
    /\ UNCHANGED <<storeVars, logVars, opVars, fetchVars, orchVars>>

\* scrape_all_pages has been called and has done nothing yet.
ScrapeCalled ==
    /\ StoreEmpty
    /\ LogIdle
    /\ OpIdle
    /\ scrapePc = "probe"
    /\ total_pages = 0
    /\ future = << >>
    /\ pageAttempt = << >>
    /\ pageResult = << >>
    /\ pageOutcome = << >>
    /\ pageHasNext = << >>
    /\ pageRequests = << >>
    /\ pageSleeps = << >>
    /\ yielded = {}
    /\ all_songs = << >>
    /\ found_last_song = FALSE
    /\ completed_pages = 0
    /\ failed_pages = << >>
    /\ FetchIdle
    /\ OrchIdle

\* A scrape of a listing of 1..MaxRemote tracks: incremental (last_song_id is a
\* stored identifier, in the listing or no longer in it), or with no watermark,
\* or a forced full rescan.
ScrapeInit ==
    /\ remoteCount \in 1..MaxRemote
    /\ rowDefect = [i \in 1..remoteCount |-> "none"]
    /\ last_song_id \in {NoneVal} \cup {AllSongIds[i] : i \in 1..(remoteCount + 1)}
    /\ validate \in BOOLEAN
    /\ ScrapeCalled

\* A scrape with no watermark of a listing of up to PerPage + 1 rows, each
\* complete or lacking one thing.
ParseInit ==
    /\ remoteCount \in 1..(PerPage + 1)
    /\ rowDefect \in [1..remoteCount -> RowDefects]
    /\ last_song_id = NoneVal
    /\ validate = FALSE
    /\ ScrapeCalled

ScrapeStart == \E ok \in BOOLEAN : scrape_all_pages_start(ok)
PageAttempt == \E p \in Pages, ok \in BOOLEAN : scrape_songs_on_page(p, ok)
ProcessPage == \E p \in Pages : process_page_result(p)
ScrapeReturn == scrape_all_pages_return

ScrapeNext == ScrapeStart \/ PageAttempt \/ ProcessPage \/ ScrapeReturn

SpecScrape == ScrapeInit /\ [][ScrapeNext]_vars

\* --------------------------------------------------------------- Downloader
\* File names are per track: sanitize_filename ends every name with the
\* identifier.  A name is the pair of the identifier and its suffix.
FileName(s, suffix) == <<s, suffix>>

\* A check that accepts whatever file it is given.
VerifyAcceptsAll(content) == TRUE

\* verify_zip_file: ZipFile() raises BadZipFile on a file that is no archive;
\* testzip() returns the first bad member without raising, and its result is
\* not looked at, so an archive with a corrupt member passes.
verify_zip_file(content) == content \in {"valid", "badcrc"}

\* The already-downloaded test left out: every call downloads afresh.
NeverSatisfied(content) == FALSE

\* `file_path.exists() and self.verify_zip_file(file_path, song)`
AlreadySatisfied(content) == content # "absent" /\ verify_zip_file(content)

\* range(1, max_retries): one attempt short.
HasNextAttemptShort(a) == a < DownloadMaxRetries - 1

\* for attempt in range(1, max_retries + 1): is there an attempt after a?
HasNextAttempt(a) == a < DownloadMaxRetries

Logged(log, kind) == IF keepLog THEN Append(log, kind) ELSE log

\* The state download_song starts from when called for track s.
CallState(s) ==
    /\ pc' = [pc EXCEPT ![s] = "precheck"]
    /\ attempt' = [attempt EXCEPT ![s] = 0]
    /\ retry_count' = [retry_count EXCEPT ![s] = 0]
    /\ attemptsMade' = [attemptsMade EXCEPT ![s] = 0]
    /\ zipAtCall' = [zipAtCall EXCEPT ![s] = zipFile[s]]
    /\ netUsed' = [netUsed EXCEPT ![s] = FALSE]
    /\ zipTouched' = [zipTouched EXCEPT ![s] = FALSE]
    /\ failureLog' = [failureLog EXCEPT ![s] = << >>]
    /\ traffic' = [traffic EXCEPT ![s] = NoTraffic]

\* download_song up to the retry loop: the already-downloaded check, and the
\* removal of a file that failed it.
download_song_precheck(s) ==
    /\ pc[s] = "precheck"
    /\ IF AlreadySatisfied(zipFile[s])
       THEN /\ songs' = [songs EXCEPT ![s] =
                          [@ EXCEPT !.file_path = <<FileName(s, "zip")>>,
                                    !.downloaded = 1]]
            /\ dlFinished' = [dlFinished EXCEPT ![s] = TRUE]
            /\ pc' = [pc EXCEPT ![s] = "returned"]
            /\ UNCHANGED <<zipFile, zipTouched, attempt, attemptsMade>>
       ELSE /\ zipFile' = [zipFile EXCEPT ![s] = "absent"]
            /\ zipTouched' = [zipTouched EXCEPT ![s] = (zipFile[s] # "absent")]
            /\ attempt' = [attempt EXCEPT ![s] = 1]
            /\ attemptsMade' = [attemptsMade EXCEPT ![s] = 1]
            /\ pc' = [pc EXCEPT ![s] = "resolve"]
            /\ UNCHANGED <<songs, dlFinished>>
    /\ UNCHANGED <<serves, unzip_songs, delete_zip, tmpFile, bakFile, memberFiles,
                   retry_count, dlFailed, zipAtCall, netUsed, keepLog, failureLog,
                   keepTraffic, traffic>>
    /\ UNCHANGED <<storeVars, logVars, opVars, scrapeVars, orchVars>>

\* The traffic record t after one more request of the given kind.
Requested(t, kind) == IF keepTraffic THEN [t EXCEPT ![kind] = @ + 1] ELSE t

\* The traffic record t after a delay of d ticks was slept.
Slept(t, d) == IF keepTraffic THEN [t EXCEPT !.sleeps = Append(@, d)] ELSE t

\* The values random.uniform(0, 1) can return, in ticks.
Jitter == 0..JitterSteps

\* A backoff that doubles from two seconds.
sleep_time_from_two(a, u) ==
    IF JitterSteps * (2 ^ a) + u < JitterSteps * BackoffCap
    THEN JitterSteps * (2 ^ a) + u
    ELSE JitterSteps * BackoffCap

\* sleep_time = min(2 ** (attempt - 1) + random.uniform(0, 1), 30), in ticks.
sleep_time(a, u) ==
    IF JitterSteps * (2 ^ (a - 1)) + u < JitterSteps * BackoffCap
    THEN JitterSteps * (2 ^ (a - 1)) + u
    ELSE JitterSteps * BackoffCap

\* The end of a failed attempt of track s: the except clause (the clean-up is
\* in the generic clause only, a RequestException skips it), then the backoff
\* sleep and the next attempt, or after the last attempt downloaded = 0 and
\* download_failed.  zipNow and tmpNow are the files as the attempt left them,
\* t is the traffic of the call up to the failure.
FailAttempt(s, kind, cleanup, zipNow, tmpNow, t) ==
    /\ zipFile' = [zipFile EXCEPT ![s] = IF cleanup THEN "absent" ELSE zipNow]
    /\ tmpFile' = [tmpFile EXCEPT ![s] = IF cleanup THEN "absent" ELSE tmpNow]
    /\ failureLog' = [failureLog EXCEPT ![s] = Logged(@, kind)]
    /\ retry_count' = [retry_count EXCEPT ![s] = 0]
    /\ IF HasNextAttempt(attempt[s])
       THEN /\ \E u \in Jitter :
                   traffic' = [traffic EXCEPT
                                  ![s] = Slept(t, sleep_time(attempt[s], u))]
            /\ attempt' = [attempt EXCEPT ![s] = @ + 1]
            /\ attemptsMade' = [attemptsMade EXCEPT ![s] = @ + 1]
            /\ pc' = [pc EXCEPT ![s] = "resolve"]
            /\ UNCHANGED <<songs, dlFailed>>
       ELSE /\ traffic' = [traffic EXCEPT ![s] = t]
            /\ songs' = [songs EXCEPT ![s] = [@ EXCEPT !.downloaded = 0]]
            /\ dlFailed' = [dlFailed EXCEPT ![s] = TRUE]
            /\ pc' = [pc EXCEPT ![s] = "returned"]
            /\ UNCHANGED <<attempt, attemptsMade>>

\* A resolve loop that allows one request more.
ResolveGivesUpLate(n) == n > ResolveMaxRetries

\* `while retry_count < max_retries` left with n requests made and no header.
ResolveGivesUp(n) == n >= ResolveMaxRetries

\* One request of get_direct_download_url: the response carries X-File-Href
\* (found), or it does not or the request raises; after max_retries requests
\* without it the function returns None and the attempt fails.
get_direct_download_url(s, found) ==
    /\ pc[s] = "resolve"
    /\ netUsed' = [netUsed EXCEPT ![s] = TRUE]
    /\ IF found
       THEN /\ pc' = [pc EXCEPT ![s] = "stream"]
            /\ traffic' = [traffic EXCEPT ![s] = Requested(@, "resolve")]
            /\ UNCHANGED <<zipFile, tmpFile, failureLog, retry_count, attempt,
                           attemptsMade, songs, dlFailed>>
       ELSE IF ~ResolveGivesUp(retry_count[s] + 1)
            THEN /\ retry_count' = [retry_count EXCEPT ![s] = @ + 1]
                 /\ traffic' = [traffic EXCEPT ![s] = Requested(@, "resolve")]
                 /\ UNCHANGED <<zipFile, tmpFile, failureLog, attempt,
                                attemptsMade, songs, dlFailed, pc>>
            ELSE FailAttempt(s, "resolve", TRUE, zipFile[s], tmpFile[s],
                             Requested(traffic[s], "resolve"))
    /\ zipTouched' = [zipTouched EXCEPT ![s] = @ \/ zipFile'[s] # zipFile[s]]
    /\ UNCHANGED <<serves, unzip_songs, delete_zip, bakFile, memberFiles, dlFinished,
                   zipAtCall, keepLog, keepTraffic>>
    /\ UNCHANGED <<storeVars, logVars, opVars, scrapeVars, orchVars>>

\* The final name opened for writing in place of the .tmp sibling.
OpenFinalForWrite(tmp, zip) == [zip |-> "partial", tmp |-> tmp]

\* temp_file.open('wb'): the .tmp sibling is created or truncated, the file
\* under the final name is not touched.
OpenForWrite(tmp, zip) == [zip |-> zip, tmp |-> "partial"]

\* session.get(real_download_url, stream=True) and raise_for_status: on
\* success the .tmp file is opened for writing (created or truncated).
stream_open(s, ok) ==
    /\ pc[s] = "stream"
    /\ netUsed' = [netUsed EXCEPT ![s] = TRUE]
    /\ IF ok
       THEN /\ tmpFile' = [tmpFile EXCEPT ![s] = OpenForWrite(@, zipFile[s]).tmp]
            /\ zipFile' = [zipFile EXCEPT ![s] = OpenForWrite(tmpFile[s], @).zip]
            /\ traffic' = [traffic EXCEPT ![s] = Requested(@, "stream")]
            /\ pc' = [pc EXCEPT ![s] = "write"]
            /\ UNCHANGED <<failureLog, retry_count, attempt, attemptsMade,
                           songs, dlFailed>>
       ELSE FailAttempt(s, "network", FALSE, zipFile[s], tmpFile[s],
                        Requested(traffic[s], "stream"))
    /\ UNCHANGED <<serves, unzip_songs, delete_zip, bakFile, memberFiles, dlFinished,
                   zipAtCall, zipTouched, keepLog, keepTraffic>>
    /\ UNCHANGED <<storeVars, logVars, opVars, scrapeVars, orchVars>>

\* The chunk loop: the whole body arrives (body is what was sent: a sound
\* archive, an archive with a corrupt member, or no archive at all), or the
\* connection breaks (a RequestException), or a write fails (an OSError).
stream_write(s, body) ==
    /\ pc[s] = "write"
    /\ CASE body = "net_error" ->
              FailAttempt(s, "midstream", FALSE, zipFile[s], "partial", traffic[s])
         [] body = "io_error" ->
              FailAttempt(s, "io", TRUE, zipFile[s], "partial", traffic[s])
         [] OTHER ->
              /\ tmpFile' = [tmpFile EXCEPT ![s] = body]
              /\ pc' = [pc EXCEPT ![s] = "place"]
              /\ UNCHANGED <<zipFile, failureLog, retry_count, attempt,
                             attemptsMade, songs, dlFailed, traffic>>
    /\ UNCHANGED <<serves, unzip_songs, delete_zip, bakFile, memberFiles, dlFinished,
                   zipAtCall, netUsed, zipTouched, keepLog, keepTraffic>>
    /\ UNCHANGED <<storeVars, logVars, opVars, scrapeVars, orchVars>>

\* A copy in place of the rename: the .tmp file stays.
CopyTemp(tmp, zip) == [zip |-> tmp, tmp |-> tmp]

\* temp_file.rename(file_path): the files under the two names afterwards.
RenameTemp(tmp, zip) == [zip |-> tmp, tmp |-> "absent"]

\* handle_zip_extraction's result: the renamed member files found in the
\* directory (members: extractall produced files carrying the numeric
\* identifier), then the .zip.bak name when the archive is kept and its rename
\* went through (moved; an exception of unlink or rename is logged only).
handle_zip_extraction(s, members, del, moved) ==
    (IF members THEN <<FileName(s, "mp3"), FileName(s, "cdg")>> ELSE << >>)
        \o (IF del \/ ~moved THEN << >> ELSE <<FileName(s, "zip.bak")>>)

\* temp_file.rename(file_path), the integrity check, the optional extraction
\* and the book-keeping of a successful attempt.  verify_zip_file deletes a file
\* it rejects, and the attempt fails.  With extraction the archive is then
\* unlinked or renamed to .zip.bak, unless that call raises (moved is false).
place_and_finish(s, members, moved) ==
    /\ pc[s] = "place"
    /\ zipTouched' = [zipTouched EXCEPT ![s] = TRUE]
    /\ IF ~verify_zip_file(tmpFile[s])
       THEN /\ FailAttempt(s, "integrity", TRUE, "absent", "absent", traffic[s])
            /\ UNCHANGED <<bakFile, memberFiles, dlFinished>>
       ELSE /\ tmpFile' = [tmpFile EXCEPT ![s] = RenameTemp(@, zipFile[s]).tmp]
            /\ UNCHANGED traffic
            /\ IF unzip_songs
               THEN /\ zipFile' = [zipFile EXCEPT
                                      ![s] = IF moved THEN "absent"
                                             ELSE RenameTemp(tmpFile[s], @).zip]
                    /\ bakFile' = [bakFile EXCEPT ![s] = @ \/ (moved /\ ~delete_zip)]
                    /\ memberFiles' = [memberFiles EXCEPT ![s] = @ \/ members]
                    /\ songs' = [songs EXCEPT ![s] =
                                  [@ EXCEPT !.file_path =
                                                handle_zip_extraction(s, members,
                                                                      delete_zip, moved),
                                            !.extracted = 1,
                                            !.downloaded = 1]]
               ELSE /\ zipFile' = [zipFile EXCEPT ![s] = RenameTemp(tmpFile[s], @).zip]
                    /\ songs' = [songs EXCEPT ![s] =
                                  [@ EXCEPT !.file_path = <<FileName(s, "zip")>>,
                                            !.extracted = 0,
                                            !.downloaded = 1]]
                    /\ UNCHANGED <<bakFile, memberFiles>>
            /\ dlFinished' = [dlFinished EXCEPT ![s] = TRUE]
            /\ pc' = [pc EXCEPT ![s] = "returned"]
            /\ UNCHANGED <<failureLog, retry_count, attempt, attemptsMade, dlFailed>>
    /\ UNCHANGED <<serves, unzip_songs, delete_zip, zipAtCall, netUsed, keepLog,
                   keepTraffic>>
    /\ UNCHANGED <<storeVars, logVars, opVars, scrapeVars, orchVars>>

\* The dict mainWindow.download_new_tracks builds from a row.
SongDictFromRow(r) ==
    [song_id |-> r.song_id, artist |-> r.artist, artist_url |-> r.artist_url,
     title |-> r.title, title_url |-> r.title_url, order_date |-> r.order_date,
     download_url |-> r.download_url, file_path |-> r.file_path,
     downloaded |-> r.downloaded, extracted |-> r.extracted]

\* One call of download_song for the first track of the batch, whose row the
\* scrape stored; the download directory may hold files of an earlier run.
\* kinds and counts say which history of the call is kept.
FetchStart(kinds, counts) ==
    /\ purchased_songs = {SongRow(ScrapedSong(1))}
    /\ upserted = {}
    /\ lastWrite = [id \in {} |-> [song_id |-> id]]
    /\ saveCall = NoCall
    /\ cleanupLog = NoCleanup
    /\ report = NoReport
    /\ lastSongCall = NoLastSong
    /\ LogIdle
    /\ OpIdle
    /\ ScrapeIdle
    /\ OrchIdle
    /\ serves = [s \in Tracks |-> TRUE]
    /\ unzip_songs \in BOOLEAN
    /\ delete_zip \in BOOLEAN
    /\ songs = [s \in Tracks |->
                 IF s = BatchSeq[1] THEN SongDictFromRow(SongRow(ScrapedSong(1)))
                 ELSE [song_id |-> s]]
    /\ zipFile \in [Tracks -> {"absent", "valid", "badcrc", "notzip"}]
    /\ tmpFile \in [Tracks -> {"absent", "partial"}]
    /\ \A s \in Tracks \ {BatchSeq[1]} : zipFile[s] = "absent" /\ tmpFile[s] = "absent"
    /\ bakFile = [s \in Tracks |-> FALSE]
    /\ memberFiles = [s \in Tracks |-> FALSE]
    /\ pc = [s \in Tracks |-> IF s = BatchSeq[1] THEN "precheck" ELSE "none"]
    /\ attempt = [s \in Tracks |-> 0]
    /\ retry_count = [s \in Tracks |-> 0]
    /\ dlFinished = [s \in Tracks |-> FALSE]
    /\ dlFailed = [s \in Tracks |-> FALSE]
    /\ attemptsMade = [s \in Tracks |-> 0]
    /\ zipAtCall = zipFile
    /\ netUsed = [s \in Tracks |-> FALSE]
    /\ zipTouched = [s \in Tracks |-> FALSE]
    /\ keepLog = kinds
    /\ failureLog = [s \in Tracks |-> << >>]
    /\ keepTraffic = counts
    /\ traffic = [s \in Tracks |-> NoTraffic]

FetchInit == FetchStart(TRUE, FALSE)

Precheck == \E s \in Tracks : download_song_precheck(s)
Resolve == \E s \in Tracks, found \in BOOLEAN : get_direct_download_url(s, found)
StreamOpen == \E s \in Tracks, ok \in BOOLEAN : stream_open(s, ok)
StreamWrite ==
    \E s \in Tracks, body \in {"valid", "badcrc", "notzip", "net_error", "io_error"} :
        stream_write(s, body)
PlaceAndFinish ==
    \E s \in Tracks, members \in BOOLEAN, moved \in BOOLEAN :
        place_and_finish(s, members, moved)

FetchNext == Precheck \/ Resolve \/ StreamOpen \/ StreamWrite \/ PlaceAndFinish

SpecFetch == FetchInit /\ [][FetchNext]_vars

\* The same call, keeping the requests made and the delays slept.
TrafficInit == FetchStart(FALSE, TRUE)

SpecTraffic == TrafficInit /\ [][FetchNext]_vars

\* session.get(download_url) in get_direct_download_url is called without a
\* timeout: a request the vendor never answers does not return, and the call
\* of download_song stays in it.
resolve_unanswered(s) ==
    /\ pc[s] = "resolve"
    /\ pc' = [pc EXCEPT ![s] = "blocked"]
    /\ netUsed' = [netUsed EXCEPT ![s] = TRUE]
    /\ traffic' = [traffic EXCEPT ![s] = Requested(@, "resolve")]
    /\ UNCHANGED <<serves, unzip_songs, delete_zip, songs, zipFile, tmpFile, bakFile,
                   memberFiles, attempt, retry_count, dlFinished, dlFailed,
                   attemptsMade, zipAtCall, zipTouched, keepLog, failureLog,
                   keepTraffic>>
    /\ UNCHANGED <<storeVars, logVars, opVars, scrapeVars, orchVars>>

\* The same call with no history kept, every request answered, refused or left
\* without an answer.  The thread takes each of its steps; the stream request
\* is made with timeout=30, so it returns or raises.
CallInit == FetchStart(FALSE, FALSE)

Unanswered == \E s \in Tracks : resolve_unanswered(s)

CallNext == FetchNext \/ Unanswered

SpecCall ==
    /\ CallInit
    /\ [][CallNext]_vars
    /\ WF_vars(Precheck)
    /\ WF_vars(Resolve \/ Unanswered)
    /\ WF_vars(StreamOpen)
    /\ WF_vars(StreamWrite)
    /\ WF_vars(PlaceAndFinish)

\* ------------------------------------------------------ Download Orchestrator
\* update_song: UPDATE purchased_songs SET ... WHERE song_id = ?
update_song(table, song) ==
    {IF r.song_id = song.song_id
     THEN [song_id      |-> r.song_id,
           artist       |-> song.artist,
           artist_url   |-> song.artist_url,
           title        |-> song.title,
           title_url    |-> song.title_url,
           order_date   |-> song.order_date,
           download_url |-> song.download_url,
           file_path    |-> FilePathsOf(song),
           downloaded   |-> Get(song, "downloaded", 0),
           extracted    |-> Get(song, "extracted", 0)]
     ELSE r : r \in table}

TasksOver == \A s \in Tracks : task[s] \in {"none", "done"}

\* A variant of the submit test that gives up once a sibling's fetch failed.
SubmitsUntilFailure(s) == songs[s].downloaded = 0 /\ \A t \in Tracks : ~dlFailed[t]

\* The submit test of the dispatch loop: a track is handed to the pool when it
\* is not downloaded yet.
Submits(s) == songs[s].downloaded = 0

\* One iteration of DownloadThread.run's dispatch loop: return when the stop
\* flag is set, else submit the track if it is not downloaded.
dispatch_song ==
    /\ orchPc = "dispatch"
    /\ idx < MaxBatch
    /\ IF stop_downloading_flag
       THEN /\ orchPc' = "stopping"
            /\ UNCHANGED <<idx, task>>
       ELSE /\ idx' = idx + 1
            /\ task' = IF Submits(BatchSeq[idx'])
                       THEN [task EXCEPT ![BatchSeq[idx']] = "queued"]
                       ELSE task
            /\ orchPc' = IF idx' = MaxBatch THEN "wait" ELSE "dispatch"
    /\ UNCHANGED <<stop_downloading_flag, dlAttempt, downloaded_song_count,
                   countRead, song_failed>>
    /\ UNCHANGED <<storeVars, logVars, opVars, scrapeVars, fetchVars>>
    /\ UNCHANGED inFlightAtStop

\* A variant of the entry test that leaves the stop flag out.
SkipsTaskIgnoringStop(s) == songs[s].downloaded # 0

\* The entry test of download_and_update(song): nothing is fetched when the
\* stop flag is set or the track is already downloaded.
SkipsTask(s) == stop_downloading_flag \/ songs[s].downloaded # 0

\* A pool worker starts download_and_update(song): it returns at once when the
\* stop flag is set, else it makes the first call of download_song.
download_and_update_begin(s) ==
    /\ task[s] = "queued"
    /\ Cardinality({t \in Tracks : task[t] = "running"}) < DownloadWorkers
    /\ IF SkipsTask(s)
       THEN /\ task' = [task EXCEPT ![s] = "done"]
            /\ UNCHANGED <<dlAttempt, fetchVars>>
       ELSE /\ task' = [task EXCEPT ![s] = "running"]
            /\ dlAttempt' = [dlAttempt EXCEPT ![s] = 0]
            /\ CallState(s)
            /\ UNCHANGED <<serves, unzip_songs, delete_zip, songs, zipFile, tmpFile, bakFile,
                           memberFiles, dlFinished, dlFailed, keepLog, keepTraffic>>
    /\ UNCHANGED <<orchPc, idx, stop_downloading_flag, downloaded_song_count,
                   countRead, song_failed>>
    /\ UNCHANGED <<storeVars, logVars, opVars, scrapeVars>>
    /\ UNCHANGED inFlightAtStop

\* A variant of the retry test that allows one more try.
RetriesLeftOneMore(a) == a < OrchestratorRetries

\* for attempt in range(retries) ... if attempt < retries - 1: another try
\* follows the failed one.
RetriesLeft(a) == a < OrchestratorRetries - 1

\* download_song has returned: song["downloaded"] = 1, and the read half of
\* self.downloaded_song_count += 1 (the attribute is shared by the workers and
\* the statement is not atomic).
download_and_update_mark(s) ==
    /\ task[s] = "running"
    /\ pc[s] = "returned"
    /\ songs' = [songs EXCEPT ![s] = [@ EXCEPT !.downloaded = 1]]
    /\ countRead' = [countRead EXCEPT ![s] = downloaded_song_count]
    /\ pc' = [pc EXCEPT ![s] = "count"]
    /\ UNCHANGED <<serves, unzip_songs, delete_zip, zipFile, tmpFile, bakFile, memberFiles,
                   attempt, retry_count, dlFinished, dlFailed, attemptsMade,
                   zipAtCall, netUsed, zipTouched, keepLog, failureLog,
                   keepTraffic, traffic>>
    /\ UNCHANGED <<orchPc, idx, stop_downloading_flag, task, dlAttempt,
                   downloaded_song_count, song_failed>>
    /\ UNCHANGED <<storeVars, logVars, opVars, scrapeVars>>
    /\ UNCHANGED inFlightAtStop

\* The write half of the increment, then db_manager.update_song(song): it
\* commits (dbok) or raises, and then the except clause calls download_song
\* again, or after the last try emits song_failed.
download_and_update_store(s, dbok) ==
    /\ task[s] = "running"
    /\ pc[s] = "count"
    /\ downloaded_song_count' = countRead[s] + 1
    /\ IF dbok
       THEN /\ purchased_songs' = update_song(purchased_songs, songs[s])
            /\ task' = [task EXCEPT ![s] = "done"]
            /\ pc' = [pc EXCEPT ![s] = "done"]
            /\ UNCHANGED <<dlAttempt, song_failed, attempt, retry_count,
                           attemptsMade, zipAtCall, netUsed, zipTouched, failureLog,
                           traffic>>
       ELSE /\ UNCHANGED purchased_songs
            /\ IF RetriesLeft(dlAttempt[s])
               THEN /\ dlAttempt' = [dlAttempt EXCEPT ![s] = @ + 1]
                    /\ CallState(s)
                    /\ UNCHANGED <<task, song_failed>>
               ELSE /\ song_failed' = [song_failed EXCEPT ![s] = TRUE]
                    /\ task' = [task EXCEPT ![s] = "done"]
                    /\ pc' = [pc EXCEPT ![s] = "done"]
                    /\ UNCHANGED <<dlAttempt, attempt, retry_count, attemptsMade,
                                   zipAtCall, netUsed, zipTouched, failureLog,
                                   traffic>>
    /\ UNCHANGED <<serves, unzip_songs, delete_zip, songs, zipFile, tmpFile, bakFile,
                   memberFiles, dlFinished, dlFailed, keepLog, keepTraffic>>
    /\ UNCHANGED <<orchPc, idx, stop_downloading_flag, countRead>>
    /\ UNCHANGED <<upserted, lastWrite, saveCall, cleanupLog, report, lastSongCall,
                   logVars, opVars,
                   scrapeVars>>
    /\ UNCHANGED inFlightAtStop

\* Every future.result() has returned: the final progress message and
\* finished.emit().
DownloadThread_finished ==
    /\ orchPc = "wait"
    /\ TasksOver
    /\ orchPc' = "finished"
    /\ UNCHANGED <<idx, stop_downloading_flag, task, dlAttempt,
                   downloaded_song_count, countRead, song_failed>>
    /\ UNCHANGED <<storeVars, logVars, opVars, scrapeVars, fetchVars>>
    /\ UNCHANGED inFlightAtStop

\* The return from inside the with block: the executor's shutdown waits for the
\* tasks already submitted.
DownloadThread_stopped ==
    /\ orchPc = "stopping"
    /\ TasksOver
    /\ orchPc' = "stopped"
    /\ UNCHANGED <<idx, stop_downloading_flag, task, dlAttempt,
                   downloaded_song_count, countRead, song_failed>>
    /\ UNCHANGED <<storeVars, logVars, opVars, scrapeVars, fetchVars>>
    /\ UNCHANGED inFlightAtStop

\* stop_downloading(), called from the user interface while the thread runs.
stop_downloading ==
    /\ orchPc \in {"dispatch", "wait"}
    /\ ~stop_downloading_flag
    /\ stop_downloading_flag' = TRUE
    /\ inFlightAtStop' = {s \in Tracks : task[s] = "running"}
    /\ UNCHANGED <<orchPc, idx, task, dlAttempt, downloaded_song_count, countRead,
                   song_failed>>
    /\ UNCHANGED <<storeVars, logVars, opVars, scrapeVars, fetchVars>>

\* DatabaseManager.get_newly_downloaded_song_count(): nothing calls
\* set_newly_downloaded_song_count, so getattr returns its default.
get_newly_downloaded_song_count == 0

\* f"Operation completed. {downloaded_count} songs downloaded."
DownloadedDetails(n) ==
    "Operation completed. " \o ToString(n) \o " songs downloaded."

\* f"All downloads completed. Downloaded {self.downloaded_song_count} songs."
CompletedMessage(n) ==
    "All downloads completed. Downloaded " \o ToString(n) \o " songs."

\* MainWindow.download_finished(log_id), the slot of the thread's finished
\* signal: it runs once finished.emit() has been reached, and ends the
\* operation.
download_finished ==
    /\ operation = "Download New Tracks"
    /\ opPc = "thread"
    /\ orchPc = "finished"
    /\ \E now \in ClockReadings :
          IF stop_downloading_flag
          THEN update_log_operation(log_id, "cancelled",
                                    "Operation was cancelled by the user.", now)
          ELSE update_log_operation(log_id, "success",
                   DownloadedDetails(get_newly_downloaded_song_count), now)
    /\ opPc' = "ended"
    /\ operation' = "none"
    /\ stop_requested' = FALSE
    /\ UNCHANGED <<log_id, polling_enabled, loginRequests, loginOutcome, stop_scraping_flag,
                   threadPc, index, added_song_count, newly_added_song_count>>
    /\ UNCHANGED <<storeVars, scrapeVars, fetchVars, orchVars>>

\* The log and the main window once download_new_tracks has started the
\* thread: its "Download New Tracks" entry is the log's only row.
DownloadOpStarted ==
    /\ operation_logs =
          {LogRow(1, "Download New Tracks", 1,
                  "Initiating download process for new karaoke tracks.")}
    /\ logClock = 1
    /\ logIds = 1
    /\ logWrites = << << >> >>
    /\ logCalls = 1
    /\ startsSincePurge = 1
    /\ operation = "Download New Tracks"
    /\ opPc = "thread"
    /\ log_id = 1
    /\ stop_requested = FALSE
    /\ polling_enabled = FALSE
    /\ loginRequests = 0
    /\ loginOutcome = "none"
    /\ stop_scraping_flag = FALSE
    /\ threadPc = "none"
    /\ index = 0
    /\ added_song_count = 0
    /\ newly_added_song_count = 0

\* The rows ScrapeThread saved for the tracks of the batch.
BatchRows == {SongRow(ScrapedSong(i)) : i \in 1..MaxBatch}

\* A DownloadThread started by download_new_tracks on the rows with
\* downloaded = 0 that a scrape stored; the download directory is empty.  For
\* the whole run the vendor either serves a track's archive or fails every
\* request for it (SpecFetch explores a call request by request).
DownloadInit ==
    /\ purchased_songs = BatchRows
    /\ upserted = {}
    /\ lastWrite = [id \in {} |-> [song_id |-> id]]
    /\ saveCall = NoCall
    /\ cleanupLog = NoCleanup
    /\ report = NoReport
    /\ lastSongCall = NoLastSong
    /\ DownloadOpStarted
    /\ ScrapeIdle
    /\ serves \in [Tracks -> BOOLEAN]
    /\ unzip_songs \in BOOLEAN
    /\ delete_zip \in BOOLEAN
    /\ songs = [s \in Tracks |->
                  SongDictFromRow(CHOOSE r \in BatchRows : r.song_id = s)]
    /\ zipFile = [s \in Tracks |-> "absent"]
    /\ tmpFile = [s \in Tracks |-> "absent"]
    /\ bakFile = [s \in Tracks |-> FALSE]
    /\ memberFiles = [s \in Tracks |-> FALSE]
    /\ pc = [s \in Tracks |-> "none"]
    /\ attempt = [s \in Tracks |-> 0]
    /\ retry_count = [s \in Tracks |-> 0]
    /\ dlFinished = [s \in Tracks |-> FALSE]
    /\ dlFailed = [s \in Tracks |-> FALSE]
    /\ attemptsMade = [s \in Tracks |-> 0]
    /\ zipAtCall = [s \in Tracks |-> "absent"]
    /\ netUsed = [s \in Tracks |-> FALSE]
    /\ zipTouched = [s \in Tracks |-> FALSE]
    /\ keepLog = FALSE
    /\ failureLog = [s \in Tracks |-> << >>]
    /\ keepTraffic = FALSE
    /\ traffic = [s \in Tracks |-> NoTraffic]
    /\ orchPc = "dispatch"
    /\ idx = 0
    /\ stop_downloading_flag = FALSE
    /\ task = [s \in Tracks |-> "none"]
    /\ dlAttempt = [s \in Tracks |-> 0]
    /\ downloaded_song_count = 0
    /\ countRead = [s \in Tracks |-> 0]
    /\ song_failed = [s \in Tracks |-> FALSE]
    /\ inFlightAtStop = {}

Dispatch == dispatch_song
TaskBegin == \E s \in Tracks : download_and_update_begin(s)
TaskMark == \E s \in Tracks : download_and_update_mark(s)
TaskStore == \E s \in Tracks, dbok \in BOOLEAN : download_and_update_store(s, dbok)
StopDownloading == stop_downloading

BatchResolve == \E s \in Tracks : get_direct_download_url(s, serves[s])
BatchStreamOpen == \E s \in Tracks : stream_open(s, serves[s])
BatchStreamWrite == \E s \in Tracks : stream_write(s, "valid")

DownloadNext ==
    \/ Dispatch \/ TaskBegin \/ TaskMark \/ TaskStore
    \/ DownloadThread_finished \/ DownloadThread_stopped \/ StopDownloading
    \/ Precheck \/ BatchResolve \/ BatchStreamOpen \/ BatchStreamWrite
    \/ PlaceAndFinish \/ download_finished

SpecDownload == DownloadInit /\ [][DownloadNext]_vars

\* ------------------------------------------------------------ Latest Purchase
\* A variant of the date order in which NULL sorts above every date.
DateRankNullsHigh(d) ==
    IF d = NoneVal THEN Len(AllDates) + 1
    ELSE CHOOSE i \in DOMAIN AllDates :
             AllDates[i] = d /\ \A j \in DOMAIN AllDates : AllDates[j] = d => i <= j

\* The position of a date in date order; NULL sorts below every date.
DateRank(d) ==
    IF d = NoneVal THEN 0
    ELSE CHOOSE i \in DOMAIN AllDates :
             AllDates[i] = d /\ \A j \in DOMAIN AllDates : AllDates[j] = d => i <= j

\* get_last_song_id: SELECT song_id ... ORDER BY order_date DESC LIMIT 1.  The
\* identifiers the query can return (rows of equal date come in any order).
get_last_song_id(table) ==
    IF table = {} THEN {NoneVal}
    ELSE {r.song_id : r \in {x \in table : \A y \in table :
                                 DateRank(y.order_date) <= DateRank(x.order_date)}}

\* A call of get_last_song_id, as fetch_new makes it.
get_last_song_id_call ==
    /\ \E result \in get_last_song_id(purchased_songs) :
          lastSongCall' = [called |-> TRUE, table |-> purchased_songs,
                           result |-> result]
    /\ UNCHANGED <<purchased_songs, upserted, lastWrite, saveCall, cleanupLog, report>>
    /\ UNCHANGED <<logVars, opVars, scrapeVars, fetchVars, orchVars>>

\* The order_date values ScrapeThread stores: standardize_date's ISO text, or
\* None when the listing's date is empty or does not parse.
StoredDates == {NoneVal} \cup {AllDates[i] : i \in 1..MaxSongs}

\* The dicts ScrapeThread passes to save_song.
DatedSongs ==
    {[ScrapedSong(i) EXCEPT !.order_date = d] : i \in 1..MaxSongs, d \in StoredDates}

\* The table holds no row, and get_last_song_id has not been called.
LastSongInit ==
    /\ StoreEmpty
    /\ LogIdle
    /\ OpIdle
    /\ ScrapeIdle
    /\ FetchIdle
    /\ OrchIdle

SaveDatedSong == \E song \in DatedSongs : save_song(song)
GetLastSongId == get_last_song_id_call

LastSongNext == SaveDatedSong \/ GetLastSongId

SpecLastSong == LastSongInit /\ [][LastSongNext]_vars

\* --------------------------------------------------------- Catalog Integrity
\* json.dumps(file_paths), the text the file_path column holds.
json_dumps(paths) ==
    IF paths = << >> THEN "[]"
    ELSE IF paths = <<"a.zip">> THEN "[\"a.zip\"]"
    ELSE "[\"a.zip\", \"a.zip.bak\"]"

\* The row as SQLite holds it.
StoredRow(r) == [r EXCEPT !.file_path = json_dumps(@)]

\* song_id IS NULL OR song_id = ''
InvalidId(r) == r.song_id = NoneVal \/ r.song_id = ""

\* A variant of the test that does not look for the text of an empty list.
MissingPathsNullOnly(r) ==
    r.downloaded = 1 /\ (r.file_path = NoneVal \/ r.file_path = "")

\* downloaded = 1 AND (file_path IS NULL OR file_path = '' OR file_path = '[]')
MissingPaths(r) ==
    r.downloaded = 1 /\ (r.file_path = NoneVal \/ r.file_path = "" \/ r.file_path = "[]")

\* The WHERE clause of cleanup_database's UPDATE.
NeedsPathFix(r) == MissingPaths(r)

\* The table after cleanup_database's DELETE and UPDATE.
CleanedRows(table) ==
    {IF NeedsPathFix(r) THEN [r EXCEPT !.downloaded = 0, !.file_path = "[]"] ELSE r :
         r \in {x \in table : ~InvalidId(x)}}

\* cleanup_database: the two statements and the counts it returns.
cleanup_database ==
    /\ cleanupLog.calls < MaxCleanups
    /\ purchased_songs' = CleanedRows(purchased_songs)
    /\ cleanupLog' =
          [calls |-> cleanupLog.calls + 1,
           before |-> purchased_songs,
           removed_invalid |-> Cardinality({r \in purchased_songs : InvalidId(r)}),
           fixed_paths |-> Cardinality({r \in purchased_songs :
                                           ~InvalidId(r) /\ NeedsPathFix(r)})]
    /\ UNCHANGED <<upserted, lastWrite, saveCall, report, lastSongCall>>
    /\ UNCHANGED <<logVars, opVars, scrapeVars, fetchVars, orchVars>>

\* validate_database_integrity: the report of the three queries.
validate_database_integrity ==
    /\ report' =
          [total_songs |-> Cardinality(purchased_songs),
           invalid_ids |-> Cardinality({r \in purchased_songs : InvalidId(r)}),
           duplicates |-> Cardinality({id \in {r.song_id : r \in purchased_songs} :
                              id # NoneVal /\
                              Cardinality({r \in purchased_songs : r.song_id = id}) > 1}),
           missing_file_paths |-> Cardinality({r \in purchased_songs : MissingPaths(r)}),
           cleanups |-> cleanupLog.calls]
    /\ UNCHANGED <<purchased_songs, upserted, lastWrite, saveCall, cleanupLog,
                   lastSongCall>>
    /\ UNCHANGED <<logVars, opVars, scrapeVars, fetchVars, orchVars>>

\* The rows a table can hold: those save_song and update_song write, and rows
\* of an older or foreign writer with a NULL or empty identifier or file_path.
IntegrityIds == {NoneVal, ""} \cup {AllSongIds[i] : i \in 1..MaxRows}
FilePathTexts == {NoneVal, "", json_dumps(<< >>), json_dumps(<<"a.zip">>)}
\* What a table holds for one identifier: no row, or a row with some file_path
\* text and downloaded flag.
RowChoices ==
    {<<"absent", NoneVal, 0>>} \cup
    {<<"row", fp, dl>> : fp \in FilePathTexts, dl \in {0, 1}}
IntegrityRow(id, c) ==
    [StoredRow(SongRow(ScrapedSong(1))) EXCEPT
        !.song_id = id, !.file_path = c[2], !.downloaded = c[3]]

\* Any table of those rows that the PRIMARY KEY allows.
IntegrityInit ==
    /\ \E f \in [IntegrityIds -> RowChoices] :
          purchased_songs =
              {IntegrityRow(id, f[id]) : id \in {x \in IntegrityIds : f[x][1] = "row"}}
    /\ upserted = {}
    /\ lastWrite = [id \in {} |-> [song_id |-> id]]
    /\ saveCall = NoCall
    /\ cleanupLog = NoCleanup
    /\ report = NoReport
    /\ lastSongCall = NoLastSong
    /\ LogIdle
    /\ OpIdle
    /\ ScrapeIdle
    /\ FetchIdle
    /\ OrchIdle

CleanupDatabase == cleanup_database
ValidateDatabaseIntegrity == validate_database_integrity

IntegrityNext == CleanupDatabase \/ ValidateDatabaseIntegrity

SpecIntegrity == IntegrityInit /\ [][IntegrityNext]_vars

\* -------------------------------------------------------- Reconcile Operations
\* The next clock reading of a running operation.
Tick == logClock + 1

\* start_operation / end_operation: operation_in_progress and stop_requested.
end_operation ==
    /\ operation' = "none"
    /\ opPc' = "ended"
    /\ stop_requested' = FALSE

\* standardize_date on the songs' order_date: an ISO date matches the pattern
\* %Y-%m-%d and is formatted back to itself; anything else parses to None.
standardize_date(d) ==
    IF \E i \in DOMAIN AllDates : AllDates[i] = d THEN d ELSE NoneVal

\* song_exists(song_id): the dict of the row's downloaded flag, or None (the
\* optional dict is a sequence of at most one element).
song_exists(table, id) ==
    IF \E r \in table : r.song_id = id
    THEN <<[downloaded |-> (CHOOSE r \in table : r.song_id = id).downloaded]>>
    ELSE << >>

\* A save loop that updates every row it finds.
UpdatesAnyExisting(existing_song) == TRUE

\* `if downloaded_status == 0`: the row found is updated only when it is not
\* downloaded.
UpdatesExisting(existing_song) == existing_song[1].downloaded = 0

\* ScrapeThread(scraper, db_manager, last_song_id, validate) and start(): run
\* begins with scrape_all_pages.
ScrapeThread_start(last, val) ==
    /\ last_song_id' = last
    /\ validate' = val
    /\ scrapePc' = "probe"
    /\ stop_scraping_flag' = FALSE
    /\ threadPc' = "scrape"
    /\ index' = 0
    /\ added_song_count' = 0
    /\ UNCHANGED <<remoteCount, rowDefect, total_pages, future, pageAttempt, pageResult,
                   pageOutcome, pageHasNext, pageRequests, pageSleeps, yielded,
                   all_songs, found_last_song, completed_pages, failed_pages>>

\* A login that is taken to have succeeded whatever the answer.
LoginAlwaysSucceeded(ok) == TRUE

\* scraper.login() returns when the answer is a 200 carrying "logout" (ok) and
\* raises otherwise; the caller's except clause ends the operation.
LoginSucceeded(ok) == ok

\* toggle_polling up to the change of the timers.
toggle_polling_start ==
    /\ opPc = "idle"
    /\ logIds < MaxToggles
    /\ start_log_operation("Toggle Polling",
                           "Polling status change requested by user.", Tick)
    /\ log_id' = logIds'
    /\ polling_enabled' = ~polling_enabled
    /\ opPc' = "toggle"
    /\ UNCHANGED <<operation, stop_requested, loginRequests, loginOutcome, stop_scraping_flag,
                   threadPc, index, added_song_count, newly_added_song_count>>
    /\ UNCHANGED <<storeVars, scrapeVars, fetchVars, orchVars>>

\* The last statement of toggle_polling.
toggle_polling_done ==
    /\ opPc = "toggle"
    /\ update_log_operation(log_id, "success",
          IF polling_enabled THEN "Polling toggled to: Enabled."
          ELSE "Polling toggled to: Disabled.", Tick)
    /\ opPc' = "idle"
    /\ log_id' = 0
    /\ UNCHANGED <<operation, stop_requested, polling_enabled, loginRequests, loginOutcome,
                   stop_scraping_flag, threadPc, index, added_song_count,
                   newly_added_song_count>>
    /\ UNCHANGED <<storeVars, scrapeVars, fetchVars, orchVars>>

\* fetch_new (from the menu or from poll_timer_triggered) up to the login.
fetch_new_start ==
    /\ opPc = "idle"
    /\ start_log_operation("Fetch New",
                           "Initiating process to retrieve new karaoke tracks.", Tick)
    /\ log_id' = logIds'
    /\ operation' = "Fetch New"
    /\ stop_requested' = FALSE
    /\ opPc' = "login"
    /\ UNCHANGED <<polling_enabled, loginRequests, loginOutcome, stop_scraping_flag, threadPc,
                   index, added_song_count, newly_added_song_count>>
    /\ UNCHANGED <<storeVars, scrapeVars, fetchVars, orchVars>>

\* fetch_new from scraper.login() on: the login request is answered (ok) or
\* fails; then get_last_song_id reads the table (dbok) or raises out of the
\* slot, which leaves the operation as it stands.
fetch_new_login(ok, dbok) ==
    /\ operation = "Fetch New"
    /\ opPc = "login"
    /\ loginRequests' = loginRequests + 1
    /\ loginOutcome' = IF ok THEN "ok" ELSE "failed"
    /\ IF ~LoginSucceeded(ok)
       THEN /\ update_log_operation(log_id, "failed",
                                    "Scraper login failed: Login failed. Check credentials.",
                                    Tick)
            /\ end_operation
            /\ UNCHANGED <<stop_scraping_flag, threadPc, index, added_song_count,
                           scrapeVars, lastSongCall>>
       ELSE IF ~dbok
       THEN /\ opPc' = "raised"
            /\ UNCHANGED <<operation, stop_requested, stop_scraping_flag, threadPc,
                           index, added_song_count, logVars, scrapeVars, lastSongCall>>
       ELSE /\ \E last \in get_last_song_id(purchased_songs) :
                   /\ ScrapeThread_start(last, FALSE)
                   /\ lastSongCall' = [called |-> TRUE, table |-> purchased_songs,
                                       result |-> last]
            /\ opPc' = "thread"
            /\ UNCHANGED <<operation, stop_requested, logVars>>
    /\ UNCHANGED <<log_id, polling_enabled, newly_added_song_count>>
    /\ UNCHANGED <<purchased_songs, upserted, lastWrite, saveCall, cleanupLog, report,
                   fetchVars, orchVars>>

\* full_sync up to the question it asks.
full_sync_start ==
    /\ opPc = "idle"
    /\ start_log_operation("Full Sync", "Initiating full sync process.", Tick)
    /\ log_id' = logIds'
    /\ operation' = "Full Sync"
    /\ opPc' = "confirm"
    /\ UNCHANGED <<stop_requested, polling_enabled, loginRequests, loginOutcome,
                   stop_scraping_flag, threadPc, index, added_song_count,
                   newly_added_song_count>>
    /\ UNCHANGED <<storeVars, scrapeVars, fetchVars, orchVars>>

\* full_sync from the answer on: No cancels; Yes clears the table, logs in and
\* starts the thread with validate=True.
full_sync_reply(yes, ok) ==
    /\ operation = "Full Sync"
    /\ opPc = "confirm"
    /\ IF ~yes
       THEN /\ update_log_operation(log_id, "cancelled",
                                    "Full sync cancelled by user.", Tick)
            /\ end_operation
            /\ UNCHANGED <<loginRequests, loginOutcome, stop_scraping_flag, threadPc, index,
                           added_song_count, storeVars, scrapeVars>>
       ELSE /\ purchased_songs' = {}
            /\ upserted' = {}
            /\ lastWrite' = [id \in {} |-> [song_id |-> id]]
            /\ UNCHANGED <<saveCall, cleanupLog, report, lastSongCall>>
            /\ loginRequests' = loginRequests + 1
            /\ loginOutcome' = IF ok THEN "ok" ELSE "failed"
            /\ IF LoginSucceeded(ok)
               THEN /\ update_log_operation(log_id, "running",
                           "Scraper logged in successfully for full sync.", Tick)
                    /\ ScrapeThread_start(NoneVal, TRUE)
                    /\ operation' = operation
                    /\ stop_requested' = FALSE
                    /\ opPc' = "thread"
               ELSE /\ update_log_operation(log_id, "failed",
                           "Scraper login failed during full sync: Login failed. Check credentials.",
                           Tick)
                    /\ end_operation
                    /\ UNCHANGED <<stop_scraping_flag, threadPc, index,
                                   added_song_count, scrapeVars>>
    /\ UNCHANGED <<log_id, polling_enabled, newly_added_song_count>>
    /\ UNCHANGED <<fetchVars, orchVars>>

\* ScrapeThread.run: scrape_all_pages has returned its songs.
ScrapeThread_scraped ==
    /\ threadPc = "scrape"
    /\ scrapePc = "returned"
    /\ threadPc' = "save"
    /\ UNCHANGED <<operation, opPc, log_id, stop_requested, polling_enabled,
                   loginRequests, loginOutcome, stop_scraping_flag, index, added_song_count,
                   newly_added_song_count>>
    /\ UNCHANGED <<storeVars, logVars, scrapeVars, fetchVars, orchVars>>

\* One iteration of the save loop of ScrapeThread.run: return without a signal
\* when the stop flag is set; else store the song (new: save_song, known and
\* not downloaded: update_song).  A database error (~dbok) is caught by run's
\* except clause: error.emit, whose slot handle_error ends the operation, and
\* the entry is set to failed.
ScrapeThread_save(dbok) ==
    /\ threadPc = "save"
    /\ index < Len(all_songs)
    /\ LET song == [all_songs[index + 1] EXCEPT
                       !.order_date = IF Truthy(@) THEN standardize_date(@)
                                      ELSE NoneVal]
           existing_song == song_exists(purchased_songs, song.song_id)
       IN  IF stop_scraping_flag
           THEN /\ threadPc' = "stopped"
                /\ UNCHANGED <<operation, opPc, stop_requested, index,
                               added_song_count, storeVars, logVars>>
           ELSE IF ~dbok
           THEN /\ threadPc' = "error"
                /\ update_log_operation(log_id, "failed",
                       "Scraping process encountered an error: database is locked",
                       Tick)
                /\ end_operation
                /\ UNCHANGED <<index, added_song_count, storeVars>>
           ELSE /\ IF existing_song = << >>
                   THEN /\ save_song_store(song)
                        /\ added_song_count' = added_song_count + 1
                   ELSE /\ purchased_songs' =
                              IF UpdatesExisting(existing_song)
                              THEN update_song(purchased_songs, song)
                              ELSE purchased_songs
                        /\ UNCHANGED <<upserted, lastWrite, saveCall, cleanupLog,
                                       report, lastSongCall, added_song_count>>
                /\ index' = index + 1
                /\ UNCHANGED <<operation, opPc, stop_requested, threadPc, logVars>>
    /\ UNCHANGED <<log_id, polling_enabled, loginRequests, loginOutcome, stop_scraping_flag,
                   newly_added_song_count>>
    /\ UNCHANGED <<scrapeVars, fetchVars, orchVars>>

\* After the loop: set_newly_added_song_count(added_song_count), finished.emit().
ScrapeThread_finished ==
    /\ threadPc = "save"
    /\ index = Len(all_songs)
    /\ newly_added_song_count' = added_song_count
    /\ threadPc' = "finished"
    /\ UNCHANGED <<operation, opPc, log_id, stop_requested, polling_enabled,
                   loginRequests, loginOutcome, stop_scraping_flag, index, added_song_count>>
    /\ UNCHANGED <<storeVars, logVars, scrapeVars, fetchVars, orchVars>>

\* f"Scraping completed. {scraped_count} new songs found."
ScrapedDetails(n) == "Scraping completed. " \o ToString(n) \o " new songs found."

\* f"Full sync completed. {synced_count} songs synced."
SyncedDetails(n) == "Full sync completed. " \o ToString(n) \o " songs synced."

\* MainWindow.scrape_finished(log_id), the slot of the thread's finished signal
\* in a Fetch New: cancelled when the thread's stop flag is set, else success
\* and on to download_new_tracks unless a stop was requested.
scrape_finished ==
    /\ operation = "Fetch New"
    /\ opPc = "thread"
    /\ threadPc = "finished"
    /\ IF stop_scraping_flag
       THEN /\ update_log_operation(log_id, "cancelled",
                   "Scraping process was cancelled by the user.", Tick)
            /\ end_operation
       ELSE /\ update_log_operation(log_id, "success",
                   ScrapedDetails(newly_added_song_count), Tick)
            /\ IF stop_requested
               THEN end_operation
               ELSE /\ opPc' = "download_new"
                    /\ UNCHANGED <<operation, stop_requested>>
    /\ UNCHANGED <<log_id, polling_enabled, loginRequests, loginOutcome, stop_scraping_flag,
                   threadPc, index, added_song_count, newly_added_song_count>>
    /\ UNCHANGED <<storeVars, scrapeVars, fetchVars, orchVars>>

\* MainWindow.full_sync_finished(log_id), the slot of the thread's finished
\* signal in a Full Sync: the scraped rows have no file paths, so no row is
\* marked downloaded; the entry is set to success whatever the stop flag says.
full_sync_finished ==
    /\ operation = "Full Sync"
    /\ opPc = "thread"
    /\ threadPc = "finished"
    /\ update_log_operation(log_id, "success",
                            SyncedDetails(Cardinality(purchased_songs)), Tick)
    /\ IF stop_requested
       THEN end_operation
       ELSE /\ opPc' = "download_new"
            /\ UNCHANGED <<operation, stop_requested>>
    /\ UNCHANGED <<log_id, polling_enabled, loginRequests, loginOutcome, stop_scraping_flag,
                   threadPc, index, added_song_count, newly_added_song_count>>
    /\ UNCHANGED <<storeVars, scrapeVars, fetchVars, orchVars>>

\* download_new_tracks, called by the two slots: its own log entry.
download_new_tracks_start ==
    /\ opPc = "download_new"
    /\ start_log_operation("Download New Tracks",
                           "Initiating download process for new karaoke tracks.", Tick)
    /\ opPc' = "download_select"
    /\ UNCHANGED <<operation, log_id, stop_requested, polling_enabled,
                   loginRequests, loginOutcome, stop_scraping_flag, threadPc, index,
                   added_song_count, newly_added_song_count>>
    /\ UNCHANGED <<storeVars, scrapeVars, fetchVars, orchVars>>

\* download_new_tracks from its SELECT on: with no row of downloaded = 0 the
\* entry is set to info and the operation ends; else the DownloadThread is
\* started on those rows.
download_new_tracks_select ==
    /\ opPc = "download_select"
    /\ IF \A r \in purchased_songs : r.downloaded # 0
       THEN /\ update_log_operation(logIds, "info", "No new songs to download.", Tick)
            /\ end_operation
       ELSE /\ opPc' = "download_thread"
            /\ UNCHANGED <<operation, stop_requested, logVars>>
    /\ UNCHANGED <<log_id, polling_enabled, loginRequests, loginOutcome, stop_scraping_flag,
                   threadPc, index, added_song_count, newly_added_song_count>>
    /\ UNCHANGED <<storeVars, scrapeVars, fetchVars, orchVars>>

\* stop_current_operation while the scrape thread is the operation's work:
\* stop_requested, and stop_scraping() when the thread isRunning().  A thread
\* that has emitted finished may or may not have left run() yet.
stop_current_operation(running) ==
    /\ opPc = "thread"
    /\ ~stop_requested
    /\ stop_requested' = TRUE
    /\ stop_scraping_flag' =
          IF threadPc \in {"scrape", "save"} \/ (threadPc = "finished" /\ running)
          THEN TRUE ELSE stop_scraping_flag
    /\ UNCHANGED <<operation, opPc, log_id, polling_enabled, loginRequests, loginOutcome,
                   threadPc, index, added_song_count, newly_added_song_count>>
    /\ UNCHANGED <<storeVars, logVars, scrapeVars, fetchVars, orchVars>>

\* The catalog an earlier reconcile left: empty, or the oldest purchase stored
\* (downloaded or not).
PriorCatalogs ==
    {{}} \cup {{[SongRow(ScrapedSong(1)) EXCEPT !.downloaded = d]} : d \in {0, 1}}

\* The main window is idle, no thread exists; the vendor lists 1..MaxSongs
\* tracks.
OperationInit ==
    /\ purchased_songs \in PriorCatalogs
    /\ upserted = {r.song_id : r \in purchased_songs}
    /\ lastWrite = [id \in upserted |-> ScrapedSong(1)]
    /\ saveCall = NoCall
    /\ cleanupLog = NoCleanup
    /\ report = NoReport
    /\ lastSongCall = NoLastSong
    /\ LogIdle
    /\ OpIdle
    /\ remoteCount \in 1..MaxSongs
    /\ rowDefect = [i \in 1..remoteCount |-> "none"]
    /\ last_song_id = NoneVal
    /\ validate = FALSE
    /\ scrapePc = "idle"
    /\ total_pages = 0
    /\ future = << >>
    /\ pageAttempt = << >>
    /\ pageResult = << >>
    /\ pageOutcome = << >>
    /\ pageHasNext = << >>
    /\ pageRequests = << >>
    /\ pageSleeps = << >>
    /\ yielded = {}
    /\ all_songs = << >>
    /\ found_last_song = FALSE
    /\ completed_pages = 0
    /\ failed_pages = << >>
    /\ FetchIdle
    /\ OrchIdle

TogglePolling == toggle_polling_start \/ toggle_polling_done
FetchNew == fetch_new_start \/ \E ok, dbok \in BOOLEAN : fetch_new_login(ok, dbok)
FullSync == full_sync_start \/ \E yes, ok \in BOOLEAN : full_sync_reply(yes, ok)
ScrapeThread_run ==
    \/ ScrapeNext
    \/ ScrapeThread_scraped
    \/ \E dbok \in BOOLEAN : ScrapeThread_save(dbok)
    \/ ScrapeThread_finished
Slots == scrape_finished \/ full_sync_finished
DownloadNewTracks == download_new_tracks_start \/ download_new_tracks_select
StopCurrentOperation == \E running \in BOOLEAN : stop_current_operation(running)

OperationNext ==
    \/ TogglePolling \/ FetchNew \/ FullSync \/ ScrapeThread_run \/ Slots
    \/ DownloadNewTracks \/ StopCurrentOperation

SpecOperation == OperationInit /\ [][OperationNext]_vars

\* ------------------------------------------------------- Reconcile Sessions
\* Consecutive Fetch New operations against an unchanged listing whose pages
\* are all fetched, with the downloads that follow a finished scrape.

\* What the download that follows a scrape stores for track s: download_song
\* fetched the archive and update_song wrote the dict.
DownloadStored(s) ==
    /\ opPc = "download_new"
    /\ \E r \in purchased_songs :
          /\ r.song_id = s
          /\ r.downloaded = 0
          /\ purchased_songs' =
                 update_song(purchased_songs,
                             [SongDictFromRow(r) EXCEPT
                                 !.file_path = <<FileName(s, "zip")>>,
                                 !.downloaded = 1,
                                 !.extracted = 0])
    /\ UNCHANGED <<upserted, lastWrite, saveCall, cleanupLog, report, lastSongCall>>
    /\ UNCHANGED <<logVars, opVars, scrapeVars, fetchVars, orchVars>>

\* The operation is over, or the application was closed and started again
\* after a stopped thread: the main window is idle, no thread exists, the
\* catalog, the log and the vendor's listing are as they were.
next_session ==
    /\ logIds < MaxRuns
    /\ \/ opPc \in {"ended", "download_new"}
       \/ opPc = "thread" /\ threadPc = "stopped"
    /\ operation' = "none"
    /\ opPc' = "idle"
    /\ log_id' = 0
    /\ stop_requested' = FALSE
    /\ polling_enabled' = FALSE
    /\ loginRequests' = 0
    /\ loginOutcome' = "none"
    /\ stop_scraping_flag' = FALSE
    /\ threadPc' = "none"
    /\ index' = 0
    /\ added_song_count' = 0
    /\ newly_added_song_count' = 0
    /\ last_song_id' = NoneVal
    /\ validate' = FALSE
    /\ scrapePc' = "idle"
    /\ total_pages' = 0
    /\ future' = << >>
    /\ pageAttempt' = << >>
    /\ pageResult' = << >>
    /\ pageOutcome' = << >>
    /\ pageHasNext' = << >>
    /\ pageRequests' = << >>
    /\ pageSleeps' = << >>
    /\ yielded' = {}
    /\ all_songs' = << >>
    /\ found_last_song' = FALSE
    /\ completed_pages' = 0
    /\ failed_pages' = << >>
    /\ UNCHANGED <<remoteCount, rowDefect, storeVars, logVars, fetchVars, orchVars>>

\* A fresh installation: the catalog is empty.
ReconcileInit == OperationInit /\ purchased_songs = {}

FetchNewLoggedIn == fetch_new_start \/ fetch_new_login(TRUE, TRUE)
PagesFetched ==
    \/ scrape_all_pages_start(TRUE)
    \/ \E p \in Pages : scrape_songs_on_page(p, TRUE)
    \/ ProcessPage
    \/ ScrapeReturn
SaveLoop == ScrapeThread_scraped \/ ScrapeThread_save(TRUE) \/ ScrapeThread_finished
DownloadsStored == \E s \in SongIds : DownloadStored(s)

ReconcileNext ==
    \/ FetchNewLoggedIn \/ PagesFetched \/ SaveLoop \/ scrape_finished
    \/ StopCurrentOperation \/ DownloadsStored \/ next_session

SpecReconcile == ReconcileInit /\ [][ReconcileNext]_vars

\* A scrape in which every request is answered, over rows of every kind.
SpecParse == ParseInit /\ [][PagesFetched]_vars

\* ------------------------------------------------------------------ claims
RowsOf(id) == {r \in get_all_songs : r.song_id = id}

\* The row reflects the dict: every key the dict carries is stored as given.
RowReflects(row, song) ==
    \A k \in DOMAIN song : row[k] = song[k]

\* C1: after any sequence of save_song calls (since the last clear_database) the
\* table holds exactly one row per identifier saved, that row reflects the last
\* dict saved under the identifier, and get_all_songs returns as many rows as
\* there are distinct identifiers saved.
C1_UpsertUniqueness ==
    /\ \A id \in upserted :
          /\ Cardinality(RowsOf(id)) = 1
          /\ \A r \in RowsOf(id) : RowReflects(r, lastWrite[id])
    /\ Cardinality(get_all_songs) = Cardinality(upserted)

\* Two identifiers are stored, and the row of one reflects a dict that carried
\* file state and no artist.
C1_Witness ==
    /\ Cardinality(upserted) >= 2
    /\ \E id \in upserted :
          /\ "downloaded" \in DOMAIN lastWrite[id]
          /\ lastWrite[id].downloaded = 1
          /\ \E r \in RowsOf(id) : r.downloaded = 1 /\ r.artist = "Unknown"

\* Identifiers the scrape returned.
ResultIds == {all_songs[i].song_id : i \in 1..Len(all_songs)}

\* The watermark is a track of the listing.
WatermarkPos ==
    {pos \in 1..remoteCount : RemoteSongId(pos) = last_song_id}

\* Tracks already known as of the watermark: the watermark itself and every
\* track listed after it (purchased earlier).
KnownAsOfWatermark ==
    {RemoteSongId(pos) : pos \in {q \in 1..remoteCount :
                                     \E w \in WatermarkPos : q >= w}}

\* C2: whatever the number of pages, the page holding the watermark and the
\* order in which the pages complete, an incremental scrape (last_song_id given,
\* validate false) returns no track already known as of the watermark.
C2_EarlyStopBound ==
    (scrapePc = "returned" /\ Truthy(last_song_id) /\ ~validate)
        => ResultIds \cap KnownAsOfWatermark = {}

\* C9: with no watermark, whichever pages fail all their attempts, the scrape
\* returns, and its result holds every track of every page fetched successfully.
C9_PartialResult ==
    (scrapePc = "returned" /\ ~Truthy(last_song_id))
        => \A p \in Pages : pageOutcome[p] = "ok"
              => \A pos \in PagePositions(p) : RemoteSongId(pos) \in ResultIds

\* A three-page scrape without watermark returned with page 2 failed and the
\* last page processed before the first.
C9_Witness ==
    /\ scrapePc = "returned"
    /\ ~Truthy(last_song_id)
    /\ total_pages = 3
    /\ pageOutcome = <<"ok", "failed", "ok">>
    /\ Len(all_songs) >= 3
    /\ all_songs[1].song_id = RemoteSongId(2 * PerPage + 1)

FailedPageSet == {failed_pages[i] : i \in 1..Len(failed_pages)}

\* C10: when the scrape returns, failed_pages holds exactly the pages whose
\* fetch failed all its attempts.
C10_FailedPagesReport ==
    scrapePc = "returned"
        => FailedPageSet = {p \in Pages : pageOutcome[p] = "failed"}

\* C11: scrape_songs_on_page makes at most 3 requests for a page; when all fail
\* it has made exactly 3, slept 1 s after the first failure and 2 s after the
\* second and not after the third, and it returns (its future is done) the
\* empty list with has_next_page false.
C11_PageRetryBackoff ==
    \A p \in Pages :
        /\ pageRequests[p] <= 3
        /\ pageOutcome[p] = "failed"
              => /\ pageRequests[p] = 3
                 /\ pageSleeps[p] = <<1, 2>>
                 /\ future[p] = "done"
                 /\ pageResult[p] = << >>
                 /\ pageHasNext[p] = FALSE

\* A page of a listing that has a later page failed all its attempts.
C11_Witness ==
    \E p \in Pages :
        /\ pageOutcome[p] = "failed"
        /\ HasNextLink(p)
        /\ pageSleeps[p] = <<1, 2>>

\* C5: a call of download_song in which every attempt fails, at whatever step,
\* makes exactly 5 attempts and only then emits download_failed; no call makes
\* more than 5.
C5_RetryExhaustion ==
    \A s \in Tracks :
        /\ attemptsMade[s] <= 5
        /\ dlFailed[s] => (attemptsMade[s] = 5 /\ Len(failureLog[s]) = 5)
        /\ (pc[s] = "returned" /\ ~dlFinished[s]) => dlFailed[s]

\* A call ended in failure after failing at every step in turn.
C5_Witness ==
    \E s \in Tracks :
        /\ pc[s] = "returned"
        /\ dlFailed[s]
        /\ failureLog[s] = <<"resolve", "network", "midstream", "io", "integrity">>

\* C6: when all attempts have failed, download_song ends by raising to its
\* caller instead of returning.
C6_RaisesOnExhaustion ==
    \A s \in Tracks : dlFailed[s] => pc[s] = "raised"

\* C7: when the file under the target name exists at the call and passes
\* verify_zip_file, download_song issues no request, leaves the file as it was,
\* and returns with downloaded = 1 and that file as the only file reference.
C7_IdempotentRefetch ==
    \A s \in Tracks :
        (pc[s] \notin {"none", "precheck"} /\ zipAtCall[s] # "absent"
            /\ verify_zip_file(zipAtCall[s]))
        => /\ ~netUsed[s]
           /\ ~zipTouched[s]
           /\ zipFile[s] = zipAtCall[s]
           /\ pc[s] = "returned"
           /\ dlFinished[s]
           /\ songs[s].downloaded = 1
           /\ songs[s].file_path = <<FileName(s, "zip")>>

\* A call found a sound archive under the target name and has returned.
C7_Witness ==
    \E s \in Tracks :
        /\ zipAtCall[s] = "valid"
        /\ pc[s] = "returned"
        /\ songs[s].downloaded = 1

TransientKinds == {"resolve", "network", "midstream"}

\* C8: when attempts 1 to 4 fail with a network error and attempt 5 succeeds,
\* without extraction, download_song ends with downloaded = 1, exactly one file
\* reference, no download_failed and no .tmp file.
C8_FailureThenRecovery ==
    \A s \in Tracks :
        (/\ pc[s] = "returned"
         /\ ~unzip_songs
         /\ dlFinished[s]
         /\ Len(failureLog[s]) = 4
         /\ \A i \in 1..4 : failureLog[s][i] \in TransientKinds)
        => /\ songs[s].downloaded = 1
           /\ Len(songs[s].file_path) = 1
           /\ ~dlFailed[s]
           /\ tmpFile[s] = "absent"
           /\ zipFile[s] # "absent"

\* Four network failures, one of them in mid-stream, then a successful fifth
\* attempt.
C8_Witness ==
    \E s \in Tracks :
        /\ pc[s] = "returned"
        /\ ~unzip_songs
        /\ dlFinished[s]
        /\ attemptsMade[s] = 5
        /\ failureLog[s] = <<"network", "resolve", "network", "midstream">>

\* C3: in every catalog state a download run reaches from the rows a scrape
\* stored, every row with downloaded = 1 has a non-empty file reference.
C3_DownloadedHasFile ==
    \A r \in purchased_songs :
        r.downloaded = 1
            => \E i \in 1..Len(r.file_path) : r.file_path[i] # << >>

\* C4: when DownloadThread.run has completed, every track whose download_song
\* calls all ended in exhaustion is stored with downloaded = 0.
C4_ExhaustedNotDownloaded ==
    orchPc = "finished"
        => \A s \in Tracks :
              (dlFailed[s] /\ ~dlFinished[s])
                  => \A r \in purchased_songs : r.song_id = s => r.downloaded = 0
\* Identifiers of the rows of the log table.
LogRowIds == {r.id : r \in operation_logs}

\* C16: in every state reached by any sequence of start_log_operation and
\* update_log_operation calls the log holds at most 100 rows.
C16_LogCapAlways == Cardinality(operation_logs) <= 100

\* C16, amended: the log holds at most 100 rows after every
\* update_log_operation, and exceeds 100 at most by the number of
\* start_log_operation calls made since.
C16_LogCapAfterUpdate ==
    Cardinality(operation_logs) <= 100 + startsSincePurge

\* A full log took two more rows, and the completion of one cut it back to 100.
C16_Witness ==
    /\ logIds = 102
    /\ startsSincePurge = 0
    /\ Cardinality(operation_logs) = 100

\* C17: every row a step removes from the log started no later than every row
\* the step keeps.
C17_LogRetention ==
    [][\A r \in {x \in operation_logs : \A y \in operation_logs' : y.id # x.id} :
          \A k \in operation_logs' : r.start_time <= k.start_time]_vars

\* A purge removed one of the two oldest rows, which share a start time, and
\* kept the other.
C17_Witness ==
    /\ logIds > 100
    /\ Cardinality(LogRowIds \cap {1, 2}) = 1
    /\ \E r \in operation_logs : r.id = 2 /\ r.start_time = 1
\* C12: once the stop flag is set, a track that is undispatched or queued is
\* never fetched (its task stays out of "running", no request is made for it),
\* a fetch in flight ends only through its own last step, and the thread ends
\* only when no task is running, with every fetch that was in flight at the
\* stop concluded by its own finished or failed event.
C12_CooperativeStop ==
    /\ [](orchPc \in {"stopped", "finished"} =>
             \A s \in inFlightAtStop :
                 task[s] = "done" /\ (dlFinished[s] \/ dlFailed[s]))
    /\ [][stop_downloading_flag =>
             /\ stop_downloading_flag'
             /\ \A s \in Tracks :
                    /\ task[s] \in {"none", "queued"} =>
                           /\ task'[s] \in {"none", "queued", "done"}
                           /\ pc'[s] = "none"
                           /\ attemptsMade'[s] = 0
                           /\ ~netUsed'[s]
                    /\ task[s] = "running" =>
                           \/ task'[s] = "running"
                           \/ task'[s] = "done" /\ pc[s] = "count"
             /\ orchPc' \in {"stopped", "finished"} => TasksOver']_vars

\* C12 witness: the thread ended after a stop that found one track in flight
\* and another still queued; the first was fetched to its end, the second was
\* taken from the queue without a fetch.
C12_Witness ==
    /\ orchPc \in {"stopped", "finished"}
    /\ stop_downloading_flag
    /\ \E s \in inFlightAtStop : dlFinished[s] /\ task[s] = "done"
    /\ \E t \in Tracks \ inFlightAtStop :
           /\ task[t] = "done"
           /\ pc[t] = "none"
           /\ songs[t].downloaded = 0
           /\ ~netUsed[t]
\* The steps of the download thread and of its pool workers (all of
\* DownloadNext but the user's stop).
DownloadProgress ==
    \/ Dispatch \/ TaskBegin \/ TaskMark \/ TaskStore
    \/ DownloadThread_finished \/ DownloadThread_stopped
    \/ Precheck \/ BatchResolve \/ BatchStreamOpen \/ BatchStreamWrite
    \/ PlaceAndFinish

\* C18: whatever subset of the batch fails to fetch, the thread is never stuck
\* before its end, and when it finishes without a stop every track of the
\* batch has been dispatched and fetched: a served track has its finished
\* event, a failed one has its own failed event after using the network.
C18_FailureIsolation ==
    /\ orchPc \in {"dispatch", "wait", "stopping"} => ENABLED DownloadProgress
    /\ (orchPc = "finished" /\ ~stop_downloading_flag) =>
           \A s \in Tracks :
               /\ task[s] = "done"
               /\ serves[s] => dlFinished[s] /\ ~dlFailed[s]
               /\ ~serves[s] => dlFailed[s] /\ ~dlFinished[s] /\ netUsed[s]

\* C18 witness: a batch finished in which one track failed to fetch and a
\* sibling was fetched and committed.
C18_Witness ==
    /\ orchPc = "finished"
    /\ ~stop_downloading_flag
    /\ \E s, t \in Tracks :
           /\ dlFailed[s] /\ ~serves[s]
           /\ dlFinished[t] /\ serves[t]
           /\ \E r \in purchased_songs : r.song_id = t /\ r.downloaded = 1
\* The row of the operation under way, and the tracks whose archive fetch
\* succeeded in this run.
LogEntry(id) == CHOOSE r \in operation_logs : r.id = id
FetchedTracks == {s \in Tracks : dlFinished[s]}

\* C19: when a batch has completed without a stop, the count in the final
\* progress message and the count in the log entry's detail both equal the
\* number of tracks whose archive fetch succeeded.
C19_AggregateCount ==
    (opPc = "ended" /\ LogEntry(log_id).status = "success") =>
        /\ CompletedMessage(downloaded_song_count) =
               CompletedMessage(Cardinality(FetchedTracks))
        /\ LogEntry(log_id).details =
               DownloadedDetails(Cardinality(FetchedTracks))
\* C20: once the login of a Fetch New or Full Sync has failed, one login
\* request has been made and no more, no listing page and no archive has been
\* requested and no thread runs, and the operation has ended with its entry
\* written once, as failed.
C20_LoginFailureFatal ==
    loginOutcome = "failed" =>
        /\ loginRequests = 1
        /\ scrapePc = "idle" /\ pageRequests = << >> /\ threadPc = "none"
        /\ orchPc = "idle" /\ \A s \in Tracks : pc[s] = "none" /\ ~netUsed[s]
        /\ opPc = "ended"
        /\ LogEntry(log_id).status = "failed"
        /\ logWrites[log_id] = <<"failed">>

\* C20 witness: a Fetch New whose login failed has ended.
C20_Witness ==
    /\ loginOutcome = "failed"
    /\ opPc = "ended"
    /\ LogEntry(log_id).operation = "Fetch New"
    /\ LogEntry(log_id).details =
          "Scraper login failed: Login failed. Check credentials."

\* C15: every entry is written at most once after its creation, and only with
\* a terminal status.
C15_MutatedOnce ==
    \A id \in 1..logIds :
        /\ Len(logWrites[id]) <= 1
        /\ \A i \in 1..Len(logWrites[id]) : logWrites[id][i] \in TerminalStatuses

\* C14: when nothing more can happen in an operation, the entry of the
\* reconcile operation that was started has a terminal status.
C14_EntryReachesTerminal ==
    (log_id # 0 /\ ~ENABLED OperationNext) =>
        LogEntry(log_id).status \in TerminalStatuses

\* C13: when the user's stop has reached the scrape thread and nothing more
\* can happen, the operation's entry has the status cancelled.
C13_StopIsCancelled ==
    (stop_scraping_flag /\ ~ENABLED OperationNext) =>
        LogEntry(log_id).status = "cancelled"
\* The dict of a call carries no identifier, or an empty one.
LacksIdentifier(song) ==
    ~("song_id" \in DOMAIN song) \/ song.song_id \in {"", NoneVal}

\* C21: a save_song call whose dict has an empty or missing song_id raises
\* ValueError and leaves the table as it was: no row added, replaced or
\* removed.
C21_RejectsEmptyId ==
    [][(saveCall' # saveCall /\ LacksIdentifier(saveCall'.song)) =>
          /\ saveCall'.raised = "ValueError"
          /\ purchased_songs' = purchased_songs]_vars

\* C21 witness: the last call was rejected while the table held rows, none of
\* them with an empty identifier.
C21_Witness ==
    /\ saveCall.raised = "ValueError"
    /\ LacksIdentifier(saveCall.song)
    /\ Cardinality(purchased_songs) >= 2
    /\ \A r \in purchased_songs : r.song_id # ""
\* A row with no identifier, and a row that claims a download without naming
\* a file.
EmptyIdentifier(r) == r.song_id \in {NoneVal, ""}
ClaimsWithoutFile(r) ==
    r.downloaded = 1 /\ r.file_path \in {NoneVal, "", "[]"}

\* C22: after cleanup_database the table holds no row with an empty
\* identifier; each row that claimed downloaded = 1 without a file reference is
\* there with downloaded = 0, every other row is there as it was, and nothing
\* else is; a validate_database_integrity after it reports invalid_ids = 0 and
\* missing_file_paths = 0, and a second cleanup_database changes nothing.
C22_CleanupRepairs ==
    cleanupLog.calls >= 1 =>
        LET before == cleanupLog.before
            kept == {r \in before : ~EmptyIdentifier(r)}
        IN  /\ \A t \in purchased_songs : ~EmptyIdentifier(t)
            /\ \A r \in kept :
                   IF ClaimsWithoutFile(r)
                   THEN \E t \in purchased_songs :
                            /\ t.downloaded = 0
                            /\ [t EXCEPT !.downloaded = 1, !.file_path = r.file_path] = r
                   ELSE r \in purchased_songs
            /\ Cardinality(purchased_songs) = Cardinality(kept)
            /\ report.cleanups >= 1 =>
                   report.invalid_ids = 0 /\ report.missing_file_paths = 0
            /\ cleanupLog.calls >= 2 =>
                   /\ purchased_songs = before
                   /\ cleanupLog.removed_invalid = 0
                   /\ cleanupLog.fixed_paths = 0

\* C22 witness: a cleanup removed a row without identifier, reset a row that
\* claimed a download with the text of an empty list, left a downloaded row
\* with a file alone, and the table was validated after it.
C22_Witness ==
    /\ cleanupLog.calls = 1
    /\ cleanupLog.removed_invalid >= 1
    /\ \E r \in cleanupLog.before :
           ~EmptyIdentifier(r) /\ r.downloaded = 1 /\ r.file_path = "[]"
    /\ \E r \in purchased_songs : r.downloaded = 1
    /\ report.cleanups = 1
\* The day of a purchase date, counted along the calendar.
PurchaseDay(d) == CHOOSE i \in 1..Len(AllDates) :
                      AllDates[i] = d /\ \A j \in 1..(i - 1) : AllDates[j] # d

\* C23: get_last_song_id returns None on an empty table; otherwise it returns
\* the identifier of a stored row that no dated row is later than, and a row
\* without a date only when no stored row has one.
C23_LatestPurchase ==
    lastSongCall.called =>
        IF lastSongCall.table = {}
        THEN lastSongCall.result = NoneVal
        ELSE \E r \in lastSongCall.table :
                 /\ r.song_id = lastSongCall.result
                 /\ \A y \in lastSongCall.table :
                        y.order_date # NoneVal =>
                            /\ r.order_date # NoneVal
                            /\ PurchaseDay(y.order_date) <= PurchaseDay(r.order_date)

\* C23 witness: the call was made on a table holding a row without a date, an
\* older row and a later row, and returned the later row's identifier.
C23_Witness ==
    /\ lastSongCall.called
    /\ \E r \in lastSongCall.table : r.order_date = NoneVal
    /\ \E r1, r2 \in lastSongCall.table :
           /\ r1.song_id # r2.song_id
           /\ r1.order_date # NoneVal /\ r2.order_date # NoneVal
           /\ PurchaseDay(r1.order_date) < PurchaseDay(r2.order_date)
           /\ r2.song_id = lastSongCall.result

\* The songs of a page result listed before position k.
ListedBefore(page_songs, k) == SubSeq(page_songs, 1, k - 1)

\* The first position of page_songs holding the watermark, 0 when none does.
FirstMatch(page_songs) ==
    LET hits == {k \in 1..Len(page_songs) : page_songs[k].song_id = last_song_id}
    IN  IF hits = {} THEN 0 ELSE CHOOSE k \in hits : \A j \in hits : k <= j

\* One step of an incremental scrape: once the watermark has been seen
\* all_songs is never extended; the step that processes the first page result
\* holding the watermark appends only the songs listed before it on that page.
StopAcceptingStep ==
    (Truthy(last_song_id) /\ ~validate) =>
        /\ found_last_song => all_songs' = all_songs
        /\ \A p \in yielded' \ yielded :
               (~found_last_song /\ FirstMatch(pageResult[p]) # 0) =>
                   /\ found_last_song'
                   /\ all_songs' =
                          all_songs \o ListedBefore(pageResult[p],
                                                    FirstMatch(pageResult[p]))

\* C24: in a scrape with last_song_id set and validate false, from the moment a
\* song matching last_song_id is seen in a page result nothing more is added to
\* all_songs: not the watermark song, not the songs after it on that page, no
\* song of a page whose result arrives later; for the single page
\* [KV101, KV100] and watermark KV100 the result is exactly [KV101].
C24_StopAtWatermark ==
    /\ [][StopAcceptingStep]_vars
    /\ [](( /\ scrapePc = "returned"
            /\ remoteCount = 2
            /\ last_song_id = "KV100"
            /\ ~validate
            /\ total_pages = 1
            /\ pageOutcome[1] = "ok")
              => all_songs = <<ScrapedSong(2)>>)

\* C24 witness: an incremental scrape of three pages returned after the page
\* holding the watermark, with a song after it on that page, was processed
\* second; the page fetched successfully but never processed added nothing.
C24_Witness ==
    /\ scrapePc = "returned"
    /\ Truthy(last_song_id) /\ ~validate
    /\ found_last_song
    /\ total_pages = 3
    /\ Cardinality(yielded) = 2
    /\ \E p \in Pages \ yielded :
           /\ pageOutcome[p] = "ok"
           /\ \A k \in 1..Len(pageResult[p]) :
                  pageResult[p][k].song_id \notin ResultIds
    /\ \E p \in yielded :
           /\ FirstMatch(pageResult[p]) = 1
           /\ Len(pageResult[p]) = 2
    /\ Len(all_songs) = 2

\* The contents a completely streamed body leaves in the .tmp file.
WholeBodies == {"valid", "badcrc", "notzip"}

\* One step of download_song seen from the final name of track s: the request
\* and the chunk loop leave the file under the final name alone, and a file
\* appears under it only by the rename of a completely written .tmp file.
PlacementStep(s) ==
    /\ pc[s] \in {"stream", "write"} => zipFile'[s] = zipFile[s]
    /\ (zipFile'[s] # zipFile[s] /\ zipFile'[s] # "absent") =>
           /\ pc[s] = "place"
           /\ tmpFile[s] \in WholeBodies
           /\ zipFile'[s] = tmpFile[s]
           /\ tmpFile'[s] = "absent"

\* C25: during download_song the streamed bytes go to the .tmp sibling only;
\* the file under the final name is created only by the rename done after the
\* whole stream was written, so the final name never holds a partly streamed
\* archive.
C25_AtomicPlacement ==
    /\ [](\A s \in Tracks : zipFile[s] # "partial")
    /\ [][\A s \in Tracks : PlacementStep(s)]_vars

\* C25 witness: a call whose first stream broke part-way placed the archive of
\* its second attempt under the final name, and no .tmp file is left.
C25_Witness ==
    \E s \in Tracks :
        /\ pc[s] = "returned"
        /\ dlFinished[s]
        /\ failureLog[s] = <<"midstream">>
        /\ ~unzip_songs
        /\ zipFile[s] = "valid"
        /\ tmpFile[s] = "absent"

\* Track s is at the start of an attempt that follows a failed one.
NextAttemptStarts(s) == pc[s] = "resolve" /\ retry_count[s] = 0 /\ attempt[s] >= 2

\* C26: after any failed attempt of download_song, whatever the failure
\* (network error while resolving or streaming, HTTP error status, integrity
\* failure), neither the .tmp file nor the file under the final name exists
\* when the next attempt starts or when download_failed is emitted.
C26_CleanAfterFailure ==
    \A s \in Tracks :
        (NextAttemptStarts(s) \/ dlFailed[s]) =>
            zipFile[s] = "absent" /\ tmpFile[s] = "absent"

\* ZipFile(zip_file_path) raises BadZipFile: the body is no archive.
FailsIntegrityTest(content) == content = "notzip"

\* The step of track s that tests a completely streamed body which fails the
\* test: the file is gone from both names, the track is not marked downloaded
\* and no download_finished is emitted, the failure is one of the attempts,
\* and the next attempt starts if one remains, else download_failed is emitted.
IntegrityFailureStep(s) ==
    (pc[s] = "place" /\ FailsIntegrityTest(tmpFile[s]) /\ pc'[s] # "place") =>
        /\ zipFile'[s] = "absent"
        /\ tmpFile'[s] = "absent"
        /\ songs'[s].downloaded = 0
        /\ dlFinished'[s] = dlFinished[s]
        /\ failureLog'[s] = Append(failureLog[s], "integrity")
        /\ Len(failureLog'[s]) = attempt[s]
        /\ attempt[s] <= DownloadMaxRetries
        /\ IF attempt[s] < DownloadMaxRetries
           THEN /\ pc'[s] = "resolve"
                /\ attempt'[s] = attempt[s] + 1
                /\ ~dlFailed'[s]
           ELSE /\ pc'[s] = "returned"
                /\ dlFailed'[s]

SleptBy(s) == traffic[s].sleeps

\* C28: the delay slept after failed attempt a (1 <= a <= 4) lies in
\* [2^(a-1), 2^(a-1) + 1] seconds and never exceeds 30 seconds, the lower
\* bounds do not decrease with a, and no delay is slept after the 5th attempt.
C28_BackoffBound ==
    \A s \in Tracks :
        /\ Len(SleptBy(s)) <= DownloadMaxRetries - 1
        /\ pc[s] \in {"resolve", "stream", "write", "place"} =>
               Len(SleptBy(s)) = attempt[s] - 1
        /\ dlFailed[s] => Len(SleptBy(s)) = DownloadMaxRetries - 1
        /\ \A a \in 1..Len(SleptBy(s)) :
               /\ JitterSteps * (2 ^ (a - 1)) <= SleptBy(s)[a]
               /\ SleptBy(s)[a] <= JitterSteps * (2 ^ (a - 1) + 1)
               /\ SleptBy(s)[a] <= JitterSteps * BackoffCap
               /\ sleep_time(a, 0) = JitterSteps * (2 ^ (a - 1))
               /\ a > 1 => sleep_time(a - 1, 0) <= sleep_time(a, 0)

\* C28 witness: all five attempts failed; the four delays slept are the least
\* of the first range, the greatest of the second and inner values of the
\* third and fourth.
C28_Witness ==
    \E s \in Tracks :
        /\ dlFailed[s]
        /\ Len(SleptBy(s)) = 4
        /\ SleptBy(s)[1] = JitterSteps
        /\ SleptBy(s)[2] = JitterSteps * 3
        /\ SleptBy(s)[3] = JitterSteps * 4 + 1
        /\ SleptBy(s)[4] = JitterSteps * 8 + 1

\* The resolve requests of the current attempt of track s answered without
\* the X-File-Href header.
UnresolvedRequests(s) == retry_count[s]

\* The step of track s that ends an attempt in get_direct_download_url: it is
\* the third resolve request of the attempt, and the attempt ends as one
\* failure (the next attempt, or download_failed after the last) with no
\* stream request made.
ResolveFailureStep(s) ==
    (pc[s] = "resolve" /\ pc'[s] \in {"resolve", "returned"}
                      /\ (attempt'[s] # attempt[s] \/ dlFailed'[s])) =>
        /\ UnresolvedRequests(s) + 1 = ResolveMaxRetries
        /\ traffic'[s].resolve = traffic[s].resolve + 1
        /\ traffic'[s].stream = traffic[s].stream
        /\ attemptsMade'[s] <= attemptsMade[s] + 1
        /\ (attempt'[s] = attempt[s] + 1) # dlFailed'[s]

\* C29: within one attempt of download_song the URL resolution makes at most
\* 3 requests; when none carries X-File-Href it makes exactly 3 and the attempt
\* fails as one attempt without a stream request, so a track that never
\* resolves costs exactly 15 resolve requests and no stream request.
C29_ResolveSubStep ==
    /\ [](\A s \in Tracks :
             /\ UnresolvedRequests(s) < ResolveMaxRetries
             /\ traffic[s].resolve <= ResolveMaxRetries * attemptsMade[s]
             /\ traffic[s].stream <= attemptsMade[s]
             /\ (dlFailed[s] /\ traffic[s].stream = 0) =>
                    traffic[s].resolve = ResolveMaxRetries * DownloadMaxRetries)
    /\ [][\A s \in Tracks : ResolveFailureStep(s)]_vars

\* C29 witness: download_failed was emitted for a track none of whose resolve
\* requests carried the header: 15 resolve requests, no stream request.
C29_Witness ==
    \E s \in Tracks :
        /\ dlFailed[s]
        /\ traffic[s].resolve = 15
        /\ traffic[s].stream = 0
        /\ Len(traffic[s].sleeps) = 4

\* The names in song["file_path"] of track s.
FileList(s) == {songs[s].file_path[i] : i \in 1..Len(songs[s].file_path)}

\* C30: after download_song with unzip_songs succeeded the archive is no
\* longer under its original name: with delete_zip it is deleted and not in
\* the file list, else it exists under the .zip.bak name and that name is in
\* the file list; every renamed member file is in the file list.
C30_ExtractionOutcome ==
    \A s \in Tracks :
        (pc[s] = "returned" /\ dlFinished[s] /\ unzip_songs) =>
            /\ zipFile[s] = "absent"
            /\ FileName(s, "zip") \notin FileList(s)
            /\ IF delete_zip
               THEN FileName(s, "zip.bak") \notin FileList(s)
               ELSE bakFile[s] /\ FileName(s, "zip.bak") \in FileList(s)
            /\ memberFiles[s] =>
                   {FileName(s, "mp3"), FileName(s, "cdg")} \subseteq FileList(s)

\* C31: with validate true, whatever last_song_id is (in the listing or not)
\* and whatever order the pages complete in, scrape_all_pages never stops
\* early and returns every track of every page fetched successfully, the
\* track matching last_song_id included.
C31_ForcedFullRescan ==
    validate =>
        /\ ~found_last_song
        /\ scrapePc # "shutdown"
        /\ scrapePc = "returned" =>
               /\ yielded = Pages
               /\ \A p \in Pages : pageOutcome[p] = "ok" =>
                      \A pos \in PagePositions(p) : RemoteSongId(pos) \in ResultIds

\* C31 witness: a forced rescan of three pages, the watermark on the first
\* page, returned with the last page processed first and the watermark track
\* and the tracks listed after it in the result.
C31_Witness ==
    /\ scrapePc = "returned"
    /\ validate
    /\ total_pages = 3
    /\ last_song_id = RemoteSongId(1)
    /\ \A p \in Pages : pageOutcome[p] = "ok"
    /\ Len(all_songs) = remoteCount
    /\ all_songs[1].song_id = RemoteSongId(2 * PerPage + 1)
    /\ last_song_id \in ResultIds

\* The stored row carries the metadata of the scraped song.
CarriesMetadata(row, song) ==
    /\ row.song_id = song.song_id
    /\ row.artist = song.artist /\ row.artist_url = song.artist_url
    /\ row.title = song.title /\ row.title_url = song.title_url
    /\ row.order_date = song.order_date
    /\ row.download_url = song.download_url

\* One iteration of the save loop that stored or skipped the next song of the
\* result: a row is created when the identifier is absent, rewritten when the
\* row is not downloaded, and the table is left as it is when the row is
\* downloaded; the rows of the other identifiers stay in every case.
PersistStep ==
    (threadPc = "save" /\ index' = index + 1) =>
        LET song == all_songs[index + 1]
            old == {r \in purchased_songs : r.song_id = song.song_id}
            new == {r \in purchased_songs' : r.song_id = song.song_id}
        IN  /\ {r \in purchased_songs' : r.song_id # song.song_id} =
                   {r \in purchased_songs : r.song_id # song.song_id}
            /\ Cardinality(new) = 1
            /\ IF old = {}
               THEN \A r \in new : CarriesMetadata(r, song) /\ r.downloaded = 0
               ELSE IF \A r \in old : r.downloaded = 0
               THEN \A r \in new : CarriesMetadata(r, song) /\ r.downloaded = 0
               ELSE new = old

\* C32: for each track the scrape returned, the row is created if the
\* identifier is absent, updated if the row exists with downloaded = 0, and
\* left completely unchanged if the row exists with downloaded = 1.
C32_ReconcilePersistence == [][PersistStep]_vars

\* C32 witness: the save loop has gone past a returned track whose row is
\* downloaded and holds its file, after creating the row of another track in
\* an earlier operation.
C32_Witness ==
    /\ threadPc = "save"
    /\ index >= 1
    /\ logIds >= 2
    /\ \E r \in purchased_songs :
           /\ r.song_id = all_songs[index].song_id
           /\ r.downloaded = 1
           /\ r.file_path = <<FileName(r.song_id, "zip")>>
    /\ \E r \in purchased_songs : r.downloaded = 0

\* A step in which the orchestrator calls download_song for track s.
InvokeStep(s) == pc[s] # "precheck" /\ pc'[s] = "precheck"

\* The calls of download_song and the song_failed events of one step: a first
\* call is made by a worker that found the stop flag clear, a further call
\* follows a raised update_song and there are at most OrchestratorRetries of
\* them, and song_failed is emitted by the last try's failure and by nothing
\* else; a finished task never runs again.
RetryBudgetStep ==
    \A s \in Tracks :
        /\ InvokeStep(s) =>
              \/ /\ task[s] = "queued"
                 /\ ~stop_downloading_flag
                 /\ dlAttempt'[s] = 0
              \/ /\ task[s] = "running"
                 /\ pc[s] = "count"
                 /\ purchased_songs' = purchased_songs
                 /\ dlAttempt'[s] = dlAttempt[s] + 1
                 /\ dlAttempt'[s] + 1 <= OrchestratorRetries
        /\ (song_failed'[s] # song_failed[s]) =>
              /\ ~song_failed[s]
              /\ pc[s] = "count"
              /\ dlAttempt[s] + 1 = OrchestratorRetries
              /\ purchased_songs' = purchased_songs
              /\ task'[s] = "done"
        /\ (/\ pc[s] = "count"
            /\ pc'[s] = "done"
            /\ purchased_songs' = purchased_songs) =>
              /\ dlAttempt[s] + 1 = OrchestratorRetries
              /\ ~song_failed[s]
              /\ song_failed'[s]
        /\ task[s] = "done" => task'[s] = "done"

\* A submitted track whose task ended without a call of download_song.
NeverInvoked(s) == task[s] = "done" /\ pc[s] = "none"

\* C33 as stated: within one DownloadThread run download_song is called at
\* least once and at most 3 times for every submitted track, again only after
\* the previous try raised, and the failure of the third try emits song_failed
\* exactly once.
C33_RetryBudgetEveryTrack ==
    /\ [](\A s \in Tracks : ~NeverInvoked(s))
    /\ [][RetryBudgetStep]_vars

\* C33, amended: download_song is called at most 3 times for every submitted
\* track and at least once for every one whose worker started before a stop was
\* requested; it is called again only after the previous try raised, and the
\* failure of the third try emits song_failed exactly once.
C33_RetryBudget ==
    /\ [](\A s \in Tracks : NeverInvoked(s) => stop_downloading_flag)
    /\ [][RetryBudgetStep]_vars

\* C33 witness: one track used up its three tries and its failure was
\* emitted, and another was submitted and skipped after a stop request.
C33_Witness ==
    /\ \E s \in Tracks :
           /\ song_failed[s]
           /\ dlAttempt[s] + 1 = OrchestratorRetries
           /\ task[s] = "done"
    /\ \E s \in Tracks : NeverInvoked(s) /\ stop_downloading_flag

\* The fields a track needs, read off a listing row.
HasIdentifier(row) == row.vote_button /\ Truthy(row.data_songid)
HasTitle(row) == row.song_td /\ row.song_anchor /\ Truthy(Strip(row.song_text))
HasArtist(row) == row.song_td /\ row.artist_td /\ Truthy(Strip(row.artist_text))
HasDownloadLink(row) == row.action_anchor /\ Truthy(row.action_href)

WellFormed(row) ==
    HasIdentifier(row) /\ HasTitle(row) /\ HasArtist(row) /\ HasDownloadLink(row)

\* The tracks of the well-formed rows of page p, in page order.
WellFormedTracks(p) ==
    LET rows == SelectSeq(PageRows(p), WellFormed)
    IN  [i \in 1..Len(rows) |-> extract_song_data(rows[i])]

\* C34: whatever rows of a page lack an identifier, a title, an artist or a
\* download link, scrape_songs_on_page returns the tracks of the other rows in
\* page order, and an answered page request is made once and does not fail.
C34_RowFaultTolerance ==
    \A p \in DOMAIN future :
        future[p] = "done" =>
            /\ pageOutcome[p] = "ok"
            /\ pageRequests[p] = 1
            /\ pageResult[p] = WellFormedTracks(p)

\* Tracks listed before the watermark: purchased after it.
NewerThanWatermark ==
    {RemoteSongId(pos) : pos \in {q \in 1..remoteCount :
                                     \A w \in WatermarkPos : q < w}}

\* C35: whatever order the page results arrive in, an incremental scrape
\* (last_song_id a track of the listing, validate false) whose page count probe
\* and page requests all succeed returns every track listed before the
\* watermark.
C35_IncrementalComplete ==
    ( /\ scrapePc = "returned"
      /\ Truthy(last_song_id) /\ ~validate
      /\ WatermarkPos # {}
      /\ total_pages = RemotePages
      /\ \A p \in Pages : pageOutcome[p] = "ok" /\ pageRequests[p] = 1 )
        => NewerThanWatermark \subseteq ResultIds

\* Identifiers of the stored rows.
StoredIds == {r.song_id : r \in purchased_songs}

\* Every track of the vendor's listing.
RemoteIds == {RemoteSongId(pos) : pos \in 1..remoteCount}

\* An earlier Fetch New whose thread returned from its save loop on the stop
\* flag: its log entry was never completed.
CancelledWhilePersisting(k) == k < logIds /\ logWrites[k] = << >>

\* The Fetch New running now is incremental, was not stopped, and its thread
\* has stored everything the scrape returned.
IncrementalRunDone ==
    /\ operation = "Fetch New"
    /\ opPc = "thread"
    /\ threadPc = "finished"
    /\ ~stop_scraping_flag
    /\ Truthy(last_song_id) /\ ~validate

\* C36: after a Fetch New that was stopped while it stored its tracks, a later
\* incremental Fetch New whose page requests all succeed leaves every track of
\* the listing in the catalog.
C36_NoPermanentGap ==
    ( /\ IncrementalRunDone
      /\ \E k \in 1..logIds : CancelledWhilePersisting(k)
      /\ \A p \in Pages : pageOutcome[p] = "ok" )
        => RemoteIds \subseteq StoredIds

\* The catalog as the running Fetch New found it: the table get_last_song_id
\* read when the operation started.
CatalogAtStart == lastSongCall.table

\* The Fetch New before the running one ran to its end and was logged as a
\* success.
PreviousRunSucceeded == logIds >= 2 /\ logWrites[logIds - 1] = <<"success">>

\* C37: a Fetch New that follows a completed Fetch New against the same
\* listing adds no row, changes no downloaded flag and leaves the stored
\* identifiers as they were, whatever order its page results arrive in.
C37_ReconcileIdempotent ==
    ( /\ IncrementalRunDone
      /\ PreviousRunSucceeded
      /\ \A p \in Pages : pageOutcome[p] = "ok" )
        => /\ StoredIds = {r.song_id : r \in CatalogAtStart}
           /\ added_song_count = 0
           /\ \A r \in purchased_songs : \A q \in CatalogAtStart :
                  r.song_id = q.song_id => r.downloaded = q.downloaded

\* A step of full_sync in which scraper.login() fails.
FullSyncLoginFails ==
    /\ operation = "Full Sync"
    /\ opPc = "confirm"
    /\ loginRequests' = loginRequests + 1
    /\ loginOutcome' = "failed"

\* C38: a Full Sync whose login fails leaves the rows of purchased_songs as
\* they were when the operation started.
C38_FailedLoginKeepsCatalog ==
    [][FullSyncLoginFails => purchased_songs' = purchased_songs]_vars

\* ZipFile.extractall reads every member and raises BadZipFile on one whose
\* CRC does not match: only an archive with sound members is expanded without
\* error.
ExpandsWithoutError(content) == content = "valid"

\* The step in which download_song places the archive of track s, extracts it
\* when asked to and returns.
FinishStep(s) == pc[s] = "place" /\ pc'[s] = "returned"

\* C39: when download_song returns, song["extracted"] is 1 only if
\* unzip_songs was set and the archive was expanded without error; an
\* expansion that failed leaves extracted = 0 and the archive under its .zip
\* name.
C39_ExtractedTruthful ==
    [][\A s \in Tracks :
          FinishStep(s) =>
              /\ songs'[s].extracted = 1 =>
                     unzip_songs /\ ExpandsWithoutError(tmpFile[s])
              /\ (unzip_songs /\ ~ExpandsWithoutError(tmpFile[s])) =>
                     /\ songs'[s].extracted = 0
                     /\ zipFile'[s] = tmpFile[s]]_vars

\* download_song has returned for every track it was called for.
CallsReturned == \A s \in Tracks : pc[s] \in {"none", "returned"}

\* C40: whatever the network does, a call of download_song makes at most
\* DownloadMaxRetries attempts of at most ResolveMaxRetries resolve requests
\* each, and it returns.
C40_Termination ==
    /\ [](\A s \in Tracks :
             /\ attempt[s] <= DownloadMaxRetries
             /\ retry_count[s] <= ResolveMaxRetries)
    /\ <>CallsReturned
====
